---- MODULE Spec2Model ----
(***************************************************************************)
(* SpeakCheck-AI: the transcription job queue (src/database.py) and the    *)
(* worker pipeline process_job (src/main.py), with the API handler that    *)
(* replaces a speech's video source (src/api.py).                          *)
(*                                                                         *)
(* PostgreSQL runs every transaction at READ COMMITTED: a statement sees   *)
(* the rows committed before it started, a row lock taken by SELECT ...    *)
(* FOR UPDATE or UPDATE is held until the transaction commits, and an      *)
(* UPDATE that meets a locked row waits and then re-evaluates its WHERE    *)
(* clause on the row's latest committed version.                           *)
(***************************************************************************)
EXTENDS Integers, Sequences, FiniteSets, TLC

(* ---------------------------------------------------------------------- *)
(* Bounds                                                                  *)
(* ---------------------------------------------------------------------- *)
MaxJobs == 2

ShortLen == 12

LongLen == 2001

ShortQuestion == 20

LongQuestion == 256

MaxPages == 2

MaxTextLen == 2
MaxRequests == 3
MaxRaw == 3

(* ---------------------------------------------------------------------- *)
(* Program constants                                                       *)
(* ---------------------------------------------------------------------- *)
ErrMax == 2000

QuestionMax == 255

SpeechNameMax == 255

Workers == {"w1", "w2"}

Clients == {"a1", "a2"}

Speeches == {"s1", "s2"}

None == [null |-> TRUE]

Some(v) == [null |-> FALSE, val |-> v]

Min(a, b) == IF a <= b THEN a ELSE b

(* ---------------------------------------------------------------------- *)
(* Paths and source references                                             *)
(*                                                                         *)
(* A file name "<prefix>_<stem>.<ext>" is the record of its three parts    *)
(* (prefix "" when there is none); a path is a sequence of directory       *)
(* components, relative to the working directory, and a file name; a       *)
(* reference string is a scheme ("" when there is none), the components    *)
(* between the slashes, and the last component.                            *)
(* ---------------------------------------------------------------------- *)
FileName(p, s, e) == [prefix |-> p, stem |-> s, ext |-> e]

PathOf(d, n) == [dir |-> d, name |-> n]

NoRef == [scheme |-> "", dir |-> <<>>, name |-> FileName("", "", "")]

\* settings.downloads_dir, settings.audio_output_dir
DownloadsDir == <<"downloads">>

AudioOutputDir == <<"audio">>

\* An existing video outside the scratch roots, written through downloads/..
RefLocalVideo ==
  [scheme |-> "", dir |-> <<"downloads", "..", "media">>,
   name |-> FileName("", "talk", "mp4")]

RefHttpVideo ==
  [scheme |-> "https://", dir |-> <<"host">>, name |-> FileName("", "v", "mp4")]

\* An existing document outside the scratch roots, written through audio/..
RefLocalDoc ==
  [scheme |-> "", dir |-> <<"audio", "..", "docs">>,
   name |-> FileName("", "slides", "pdf")]

\* A bare object-storage key (no such local file)
RefKeyDoc ==
  [scheme |-> "", dir |-> <<"uploads">>, name |-> FileName("", "slides", "pdf")]

PermanentFiles ==
  {PathOf(<<"media">>, FileName("", "talk", "mp4")),
   PathOf(<<"docs">>, FileName("", "slides", "pdf"))}

RECURSIVE Normalize(_)
\* Path.resolve(): ".." removes the component before it.
Normalize(d) ==
  IF d = <<>> THEN <<>>
  ELSE LET r == Normalize(SubSeq(d, 1, Len(d) - 1))
           last == d[Len(d)]
       IN IF last = ".."
            THEN (IF r = <<>> THEN <<>> ELSE SubSeq(r, 1, Len(r) - 1))
            ELSE Append(r, last)

Resolve(p) == [p EXCEPT !.dir = Normalize(p.dir)]

\* PurePath.is_relative_to(root): a lexical prefix test
IsRelativeTo(p, root) ==
  /\ Len(root) <= Len(p.dir)
  /\ SubSeq(p.dir, 1, Len(root)) = root

\* cleanup_roots = [Path(downloads_dir).resolve(), Path(audio_output_dir).resolve()]
CleanupRoots == {Normalize(DownloadsDir), Normalize(AudioOutputDir)}

VARIABLES
  jobs,        \* transcription_jobs: sequence of rows, row i has id i
  rowLock,     \* job id -> the transaction holding the row lock, or "free"
  speeches,    \* speeches rows: speech id -> record
  api,         \* client -> position of its update_speech_video request
  pc,          \* worker -> position in main / process_job
  job,         \* worker -> id of the job returned by fetch_next_job, 0 = none
  claims,      \* history: job id -> number of fetch_next_job calls that returned it
  qrows,       \* question table: speech id -> sequence of rows
  files,       \* the file system: set of resolved paths of existing files
  encoded,     \* history: the transcoder runs whose output file exists
  run,         \* worker -> locals of its process_job call
  probe        \* a call of one function on its own: name, arguments, result

vars == <<jobs, rowLock, speeches, api, pc, job, claims, qrows, files, encoded,
          run, probe>>

store == <<jobs, rowLock, speeches, api, claims, qrows>>

JobIds == 1..Len(jobs)

(* ---------------------------------------------------------------------- *)
(* Rows                                                                    *)
(* ---------------------------------------------------------------------- *)
Statuses == {"pending", "processing", "completed", "failed", "cancelled"}

\* INSERT INTO transcription_jobs (video_source, user_id, stage_id,
\* speech_id, status) VALUES (..., 'pending'): every other column takes its
\* column default (TRUE for generate_questions, NULL for the result columns,
\* NOW() for created_at).
NewJobRow(s, src, ts) ==
  [speech_id |-> s, video_source |-> src, generate_questions |-> TRUE,
   status |-> "pending",
   transcript |-> None, transcript_metadata |-> None, questions |-> None,
   error_message |-> None, created_at |-> ts]

\* NOW() of a new transaction: not before the created_at of any committed row.
LastCreatedAt == IF Len(jobs) = 0 THEN 0 ELSE jobs[Len(jobs)].created_at

\* status IN ('processing')
InFlightProcessing(j) == jobs[j].status \in {"processing"}

\* status IN ('pending', 'processing')
InFlight(j) == jobs[j].status \in {"pending", "processing"}

(* ---------------------------------------------------------------------- *)
(* Database.fetch_next_job                                                 *)
(* ---------------------------------------------------------------------- *)
\* WHERE status = 'pending' without FOR UPDATE SKIP LOCKED
EligibleUnlocked(j) == jobs[j].status = "pending"

\* a fetch that also takes back the jobs left in 'processing'
EligibleOrStale(j) ==
  jobs[j].status \in {"pending", "processing"} /\ rowLock[j] = "free"

\* WHERE status = 'pending' ... FOR UPDATE SKIP LOCKED
Eligible(j) == jobs[j].status = "pending" /\ rowLock[j] = "free"

\* ORDER BY created_at DESC ... LIMIT 1
IsNewest(j, cands) == \A k \in cands : jobs[j].created_at >= jobs[k].created_at

\* ORDER BY created_at ASC ... LIMIT 1
IsOldest(j, cands) == \A k \in cands : jobs[j].created_at <= jobs[k].created_at

\* The DELETE of the question rows of speech s waits while the transaction
\* of update_speech_video holds them.
QuestionRowsLocked(s) ==
  \E c \in Clients : api[c].pc = "cancel" /\ api[c].speech = s /\ api[c].qlocked

\* fetch_next_job issued without waiting for process_job to return
FetchNextJobSelectEager(w) ==
  /\ pc[w] \in {"idle", "processing"}
  /\ \E j \in JobIds :
       /\ Eligible(j)
       /\ IsOldest(j, {k \in JobIds : Eligible(k)})
       /\ rowLock' = [rowLock EXCEPT ![j] = w]
       /\ job' = [job EXCEPT ![w] = j]
  /\ pc' = [pc EXCEPT ![w] = "claiming"]
  /\ UNCHANGED <<jobs, speeches, api, claims, qrows, files, encoded, run, probe>>

\* The SELECT statement: locks and returns the oldest eligible row.
FetchNextJobSelect(w) ==
  /\ pc[w] = "idle"
  /\ \E j \in JobIds :
       /\ Eligible(j)
       /\ IsOldest(j, {k \in JobIds : Eligible(k)})
       /\ rowLock' = [rowLock EXCEPT ![j] = w]
       /\ job' = [job EXCEPT ![w] = j]
  /\ pc' = [pc EXCEPT ![w] = "claiming"]
  /\ UNCHANGED <<jobs, speeches, api, claims, qrows, files, encoded, run, probe>>

\* if job: UPDATE ... SET status = 'processing', error_message = NULL
\* WHERE id = job.id; commit; return job
FetchNextJobCommit(w) ==
  /\ pc[w] = "claiming"
  /\ jobs' = [jobs EXCEPT ![job[w]].status = "processing",
                          ![job[w]].error_message = None]
  /\ rowLock' = [rowLock EXCEPT ![job[w]] = "free"]
  /\ claims' = [claims EXCEPT ![job[w]] = @ + 1]
  /\ pc' = [pc EXCEPT ![w] = "processing"]
  /\ UNCHANGED <<speeches, api, job, qrows, files, encoded, run, probe>>

\* else: rollback; return None, with a main() that fetches again instead of
\* leaving its loop
FetchNextJobPoll(w) ==
  /\ pc[w] = "idle"
  /\ \A j \in JobIds : ~Eligible(j)
  /\ UNCHANGED vars

\* else: rollback; return None.  main() then leaves its loop.
FetchNextJobNone(w) ==
  /\ pc[w] = "idle"
  /\ \A j \in JobIds : ~Eligible(j)
  /\ pc' = [pc EXCEPT ![w] = "exited"]
  /\ UNCHANGED <<jobs, rowLock, speeches, api, job, claims, qrows, files, encoded, run, probe>>

(* ---------------------------------------------------------------------- *)
(* api.update_speech_video: Database.update_speech_video, then create_job  *)
(* ---------------------------------------------------------------------- *)
ApiIdle ==
  [pc |-> "idle", speech |-> "", src |-> NoRef, qlocked |-> FALSE,
   todo |-> {}, held |-> {}]

\* DELETE FROM question ...; then the UPDATE transcription_jobs statement
\* starts: its snapshot holds the rows of the speech that are in flight.
UpdateSpeechVideoBegin(c, s, src) ==
  /\ api[c].pc = "idle"
  /\ Len(jobs) + Cardinality({d \in Clients : api[d].pc # "idle"}) < MaxJobs
  /\ ~QuestionRowsLocked(s)
  /\ api' = [api EXCEPT ![c] =
       [pc |-> "cancel", speech |-> s, src |-> src,
        qlocked |-> qrows[s] # <<>>,
        todo |-> {j \in JobIds : jobs[j].speech_id = s /\ InFlight(j)},
        held |-> {}]]
  /\ UNCHANGED <<jobs, rowLock, speeches, pc, job, claims, qrows, files, encoded, run, probe>>

\* The UPDATE reaches row j: it waits while another transaction holds the
\* row lock, then re-checks status IN ('pending', 'processing') on the
\* latest committed version, and locks the row if it still matches.
UpdateSpeechVideoLockRow(c, j) ==
  /\ api[c].pc = "cancel"
  /\ j \in api[c].todo
  /\ rowLock[j] = "free"
  /\ IF InFlight(j)
       THEN /\ rowLock' = [rowLock EXCEPT ![j] = c]
            /\ api' = [api EXCEPT ![c].todo = @ \ {j}, ![c].held = @ \cup {j}]
       ELSE /\ rowLock' = rowLock
            /\ api' = [api EXCEPT ![c].todo = @ \ {j}]
  /\ UNCHANGED <<jobs, speeches, pc, job, claims, qrows, files, encoded, run, probe>>

\* UPDATE speeches SET title, video_source, speech_name = NULL; commit.
UpdateSpeechVideoCommit(c) ==
  /\ api[c].pc = "cancel"
  /\ api[c].todo = {}
  /\ jobs' = [j \in JobIds |->
               IF j \in api[c].held
                 THEN [jobs[j] EXCEPT !.status = "cancelled"]
                 ELSE jobs[j]]
  /\ rowLock' = [j \in JobIds |-> IF j \in api[c].held THEN "free" ELSE rowLock[j]]
  /\ qrows' = IF api[c].qlocked THEN [qrows EXCEPT ![api[c].speech] = <<>>]
                               ELSE qrows
  /\ speeches' = [speeches EXCEPT ![api[c].speech].title = api[c].src.name.stem,
                                  ![api[c].speech].video_source = Some(api[c].src),
                                  ![api[c].speech].speech_name = None]
  /\ api' = [api EXCEPT ![c].pc = "create", ![c].held = {}, ![c].qlocked = FALSE]
  /\ UNCHANGED <<pc, job, claims, files, encoded, run, probe>>

\* Database.create_job
CreateJob(c) ==
  /\ api[c].pc = "create"
  /\ \E ts \in {LastCreatedAt, LastCreatedAt + 1} :
       jobs' = Append(jobs, NewJobRow(api[c].speech, api[c].src, ts))
  /\ rowLock' = Append(rowLock, "free")
  /\ claims' = Append(claims, 0)
  /\ api' = [api EXCEPT ![c] = ApiIdle]
  /\ UNCHANGED <<speeches, pc, job, qrows, files, encoded, run, probe>>

(* ---------------------------------------------------------------------- *)
(* process_job: locals, exceptions, and what the environment did           *)
(* ---------------------------------------------------------------------- *)
\* The locals of process_job, and open: the question rows as the transaction
\* sees them that a statement of this call left open on the connection of
\* db.  faults, made and trail are history: the failures the environment
\* produced, the files this run created, and the states of the orchestrator
\* that were executed.
RunIdle ==
  [speech_record |-> None, video_path |-> None, audio_path |-> None,
   document_path |-> None, transcript_text |-> <<>>, document_text |-> <<>>,
   result |-> None, document_info |-> None, combined |-> <<>>, questions |-> None,
   doc_exc |-> None, exc |-> None, open |-> None,
   faults |-> {}, made |-> {}, trail |-> <<>>]

\* An exception: its class and the length of str(exc)
Raised(cls, n) == Some([cls |-> cls, len |-> n])

\* What a resolver or the transcoder did: the path returned, the files
\* created, the exception raised, the failures of the environment involved.
Outcome(path, new, exc, faults) ==
  [path |-> path, new |-> new, exc |-> exc, faults |-> faults]

Exists(fs, p) == Resolve(p) \in fs

\* Path(video_source).expanduser(): "https://host/v.mp4" is the relative path
\* https:/host/v.mp4
PotentialPath(ref) ==
  PathOf(IF ref.scheme = "" THEN ref.dir ELSE <<ref.scheme>> \o ref.dir, ref.name)

\* download_file_via_http(url, base_path, suffix): raises before the target
\* is opened (requests.get, raise_for_status), or while the body is streamed
\* into the opened target, or returns the target.
DownloadFileViaHttp(target) ==
  {Outcome(Some(target), {target}, None, {}),
   Outcome(None, {}, Raised("ConnectionError", ShortLen), {"http_error"}),
   Outcome(None, {target}, Raised("ChunkedEncodingError", ShortLen), {"http_partial"})}

\* download_video_from_web: yt-dlp first, then the plain HTTP download of
\* <job_id>_video.mp4, any failure of which is re-raised as RuntimeError.
DownloadVideoFromWeb(jid) ==
  LET ytdlp == PathOf(DownloadsDir, FileName(ToString(jid), "title", "webm"))
      fallback == PathOf(DownloadsDir, FileName(ToString(jid), "video", "mp4"))
  IN {Outcome(Some(ytdlp), {ytdlp}, None, {})}
     \cup {Outcome(o.path, o.new,
                   IF o.exc = None THEN None
                   ELSE Raised("RuntimeError", o.exc.val.len),
                   o.faults \cup {"ytdlp_error"})
           : o \in DownloadFileViaHttp(fallback)}

\* s3_client.download_file unless local_path exists; ClientError is re-raised
\* as RuntimeError.
DownloadFromS3(fs, local_path) ==
  IF Exists(fs, local_path)
    THEN {Outcome(Some(local_path), {}, None, {})}
    ELSE {Outcome(Some(local_path), {local_path}, None, {}),
          Outcome(None, {}, Raised("RuntimeError", ShortLen), {"s3_error"})}

\* s3://bucket/key is invalid when the bucket or the key is empty
InvalidS3(ref) ==
  /\ ref.scheme = "s3://"
  /\ \/ ref.dir = <<>>
     \/ ref.dir[1] = ""
     \/ ref.name = FileName("", "", "")

\* local path of an object: <downloads_dir>/<owner id>_<Path(key).name>
LocalObjectPath(owner, ref) ==
  PathOf(DownloadsDir, FileName(owner, ref.name.stem, ref.name.ext))

\* resolve_video_source without the test of potential_path.exists()
ResolveVideoSourceRemoteOnly(fs, jid, ref) ==
  IF ref.scheme \in {"http://", "https://"}
    THEN DownloadVideoFromWeb(jid)
  ELSE IF InvalidS3(ref)
    THEN {Outcome(None, {}, Raised("ValueError", ShortLen), {})}
  ELSE DownloadFromS3(fs, LocalObjectPath(ToString(jid), ref))

\* resolve_video_source(job, settings, s3_client)
ResolveVideoSource(fs, jid, ref) ==
  IF Exists(fs, PotentialPath(ref))
    THEN {Outcome(Some(PotentialPath(ref)), {}, None, {})}
  ELSE IF ref.scheme \in {"http://", "https://"}
    THEN DownloadVideoFromWeb(jid)
  ELSE IF InvalidS3(ref)
    THEN {Outcome(None, {}, Raised("ValueError", ShortLen), {})}
  ELSE DownloadFromS3(fs, LocalObjectPath(ToString(jid), ref))

\* extract_audio_from_video with ffmpeg run whether or not the output exists
ExtractAudioFromVideoAlways(fs, video_path) ==
  LET output_path ==
        PathOf(AudioOutputDir,
               FileName(video_path.name.prefix, video_path.name.stem, "mp3"))
  IN {Outcome(Some(output_path), {output_path}, None, {}),
      Outcome(None, {}, Raised("CalledProcessError", ShortLen), {"ffmpeg_error"}),
      Outcome(None, {output_path}, Raised("CalledProcessError", ShortLen),
              {"ffmpeg_partial"})}

\* extract_audio_from_video(video_path, output_dir): ffmpeg runs unless
\* <output_dir>/<stem>.mp3 exists; a non-zero exit raises CalledProcessError,
\* with or without an output file left behind.
ExtractAudioFromVideo(fs, video_path) ==
  LET output_path ==
        PathOf(AudioOutputDir,
               FileName(video_path.name.prefix, video_path.name.stem, "mp3"))
  IN IF Exists(fs, output_path)
       THEN {Outcome(Some(output_path), {}, None, {})}
       ELSE {Outcome(Some(output_path), {output_path}, None, {}),
             Outcome(None, {}, Raised("CalledProcessError", ShortLen), {"ffmpeg_error"}),
             Outcome(None, {output_path}, Raised("CalledProcessError", ShortLen),
                     {"ffmpeg_partial"})}

SupportedDocExts == {"pdf", "ppt", "pptx"}

\* download_document_from_web: None for an unsupported suffix and for any
\* failure of the download.
DownloadDocumentFromWeb(sid, ref) ==
  IF ref.name.ext \notin SupportedDocExts
    THEN {Outcome(None, {}, None, {})}
    ELSE {Outcome(o.path, o.new, None, o.faults) :
            o \in DownloadFileViaHttp(
                    PathOf(DownloadsDir, FileName(sid, "document", ref.name.ext)))}

\* resolve_document_source(speech, settings, s3_client)
ResolveDocumentSource(fs, sid, document_url) ==
  IF document_url = None
    THEN {Outcome(None, {}, None, {})}
  ELSE IF Exists(fs, PotentialPath(document_url.val))
    THEN {Outcome(Some(PotentialPath(document_url.val)), {}, None, {})}
  ELSE IF document_url.val.scheme \in {"http://", "https://"}
    THEN DownloadDocumentFromWeb(sid, document_url.val)
  ELSE IF InvalidS3(document_url.val)
    THEN {Outcome(None, {}, Raised("ValueError", ShortLen), {})}
  ELSE DownloadFromS3(fs, LocalObjectPath(sid, document_url.val))

(* ---------------------------------------------------------------------- *)
(* Text: a sequence of characters                                          *)
(* ---------------------------------------------------------------------- *)
IsBlank(t) == \A i \in 1..Len(t) : t[i] \in {" ", "\n"}

RECURSIVE LStrip(_)
LStrip(t) ==
  IF t # <<>> /\ t[1] \in {" ", "\n"} THEN LStrip(Tail(t)) ELSE t

RECURSIVE RStrip(_)
RStrip(t) ==
  IF t # <<>> /\ t[Len(t)] \in {" ", "\n"}
    THEN RStrip(SubSeq(t, 1, Len(t) - 1)) ELSE t

Strip(t) == RStrip(LStrip(t))

\* "\n\n".join(parts)
JoinParts(parts) ==
  IF parts = <<>> THEN <<>>
  ELSE IF Len(parts) = 1 THEN parts[1]
  ELSE parts[1] \o <<"\n", "\n">> \o parts[2]

\* [text for text in [transcript_text, document_text] if text]
NonEmptyParts(a, b) ==
  (IF a = <<>> THEN <<>> ELSE <<a>>) \o (IF b = <<>> THEN <<>> ELSE <<b>>)

\* [text for text in [transcript_text, document_text] if text and text.strip()]
NonBlankParts(a, b) ==
  (IF IsBlank(a) THEN <<>> ELSE <<a>>) \o (IF IsBlank(b) THEN <<>> ELSE <<b>>)

CombinedSourceText(transcript_text, document_text) ==
  JoinParts(NonBlankParts(transcript_text, document_text))

\* update_speech_after_transcription: the snippet stored as speech_name
Snippet(transcript, document_text) ==
  LET combined == JoinParts(NonBlankParts(Strip(transcript), Strip(document_text)))
      snippet == IF combined # <<>> THEN Strip(combined) ELSE Strip(transcript)
  IN IF snippet # <<>>
       THEN Some(SubSeq(snippet, 1, Min(Len(snippet), SpeechNameMax)))
       ELSE None

(* ---------------------------------------------------------------------- *)
(* Contents: what is spoken in a video, what a document contains           *)
(* ---------------------------------------------------------------------- *)
\* result["text"] of model.transcribe for the audio of a video
SpokenText(ref) == IF ref = RefLocalVideo THEN <<"A">> ELSE <<>>

(* ---------------------------------------------------------------------- *)
(* Documents.  A document is what the two extractors meet in it: whether   *)
(* pdfplumber opens it, for each page whether extract_text raises and the  *)
(* text it gives, and what PDFOCR.extract_text_from_pdf does with it.      *)
(* ---------------------------------------------------------------------- *)
Page(raises, text) == [raises |-> raises, text |-> text]

Document(opens, pages, ocr) == [opens |-> opens, pages |-> pages, ocr |-> ocr]

\* PDFOCR.extract_text_from_pdf: raises, or returns a dict with full_text
OcrRaises == [raises |-> TRUE, full_text |-> <<>>]

OcrReturns(text) == [raises |-> FALSE, full_text |-> text]

\* pytesseract.image_to_string under one configuration: raises, or the text
TesseractRaises == [raises |-> TRUE, text |-> <<>>]

TesseractReturns(text) == [raises |-> FALSE, text |-> text]

\* '가' <= c <= '힣': K stands for a Hangul syllable
IsKorean(c) == c = "K"

\* c.isalpha() and ord(c) < 128
IsAsciiAlpha(c) == c = "A"

\* korean_chars + english_chars over total_chars, the length of the text
\* without ' ' and '\n'
Score(text) ==
  [alpha |-> Cardinality({i \in 1..Len(text) : IsKorean(text[i])})
             + Cardinality({i \in 1..Len(text) : IsAsciiAlpha(text[i])}),
   total |-> Cardinality({i \in 1..Len(text) : text[i] \notin {" ", "\n"}})]

\* score >= best_score
BetterOrEqual(score, best) == score.alpha * best.total >= best.alpha * score.total

\* score > best_score, as quotients
Better(score, best) == score.alpha * best.total > best.alpha * score.total

RECURSIVE Vote(_, _, _)
\* for config in configs: the best_text after the configurations in outs,
\* from best_text and best_score; a configuration that raises is skipped
Vote(outs, best_text, best_score) ==
  IF outs = <<>> THEN best_text
  ELSE LET o == Head(outs)
       IN IF ~o.raises /\ Score(o.text).total > 0 /\ Better(Score(o.text), best_score)
            THEN Vote(Tail(outs), o.text, Score(o.text))
            ELSE Vote(Tail(outs), best_text, best_score)

\* text = best_text if best_text else pytesseract.image_to_string(
\* processed_page, lang=language): the text of a page for the outcomes of
\* the configurations and that of the run without config; the exception of
\* that run leaves extract_text_from_pdf
PageOcrText(outs, plain) ==
  LET best_text == Vote(outs, <<>>, [alpha |-> 0, total |-> 1])
  IN IF best_text # <<>> THEN TesseractReturns(best_text) ELSE plain

RECURSIVE SplitLines(_)
\* text.split('\n')
SplitLines(t) ==
  IF \A i \in 1..Len(t) : t[i] # "\n" THEN <<t>>
  ELSE LET i == CHOOSE k \in 1..Len(t) :
                  t[k] = "\n" /\ \A m \in 1..(k - 1) : t[m] # "\n"
       IN <<SubSeq(t, 1, i - 1)>> \o SplitLines(SubSeq(t, i + 1, Len(t)))

RECURSIVE JoinLines(_)
\* '\n'.join(cleaned_lines)
JoinLines(lines) ==
  IF lines = <<>> THEN <<>>
  ELSE IF Len(lines) = 1 THEN lines[1]
  ELSE lines[1] \o <<"\n">> \o JoinLines(Tail(lines))

\* PDFTextExtractor._clean_text: every line stripped, empty lines dropped
CleanText(text) ==
  IF text = <<>> THEN <<>>
  ELSE LET lines == SplitLines(text)
           stripped == [i \in 1..Len(lines) |-> Strip(lines[i])]
           NonEmpty(l) == l # <<>>
       IN JoinLines(SelectSeq(stripped, NonEmpty))

RECURSIVE PagesText(_)
\* the loop over pdf.pages: full_text += cleaned_text + '\n\n'; a page whose
\* extract_text raises adds nothing to full_text
PagesText(pages) ==
  IF pages = <<>> THEN <<>>
  ELSE (IF Head(pages).raises THEN <<>>
        ELSE CleanText(Head(pages).text) \o <<"\n", "\n">>)
       \o PagesText(Tail(pages))

\* PDFTextExtractor.extract_with_pdfplumber and extract_text, for a file
\* that exists: success and full_text
ExtractWithPdfplumber(doc) ==
  IF doc.opens
    THEN [success |-> TRUE, full_text |-> PagesText(doc.pages)]
    ELSE [success |-> FALSE, full_text |-> <<>>]

\* extract_document_text that notes no error when both extractors fail
ExtractDocumentTextNoNote(doc) ==
  LET primary == ExtractWithPdfplumber(doc)
  IN IF primary.success /\ primary.full_text # <<>>
       THEN [method |-> "pdfplumber", full_text |-> primary.full_text,
             details |-> [of |-> "primary", error |-> None]]
     ELSE [method |-> "ocr", full_text |-> doc.ocr.full_text,
           details |-> [of |-> "secondary", error |-> None]]

\* extract_document_text(document_path): method, full_text and details
\* (which extractor's result it is, and the error noted)
ExtractDocumentText(doc) ==
  LET primary == ExtractWithPdfplumber(doc)
  IN IF primary.success /\ primary.full_text # <<>>
       THEN [method |-> "pdfplumber", full_text |-> primary.full_text,
             details |-> [of |-> "primary", error |-> None]]
     ELSE IF ~doc.ocr.raises
       THEN [method |-> "ocr", full_text |-> doc.ocr.full_text,
             details |-> [of |-> "secondary", error |-> None]]
     ELSE [method |-> "unavailable", full_text |-> <<>>,
           details |-> [of |-> "error", error |-> Raised("RuntimeError", ShortLen)]]

\* The document stored under a reference
DocumentAt(ref) ==
  IF ref = RefKeyDoc
    THEN Document(TRUE, <<Page(FALSE, <<"D">>)>>, OcrReturns(<<"O", "\n", "\n">>))
    ELSE Document(FALSE, <<>>, OcrRaises)

(* ---------------------------------------------------------------------- *)
(* process_job, state by state.  P is the state of one call: its position  *)
(* pc, its locals run, and the files and tables it reads and writes.       *)
(* Each operator gives the set of states the call can be in next.          *)
(* ---------------------------------------------------------------------- *)
\* The state after a stage: "failed" (the except clause) when it raised.
After(o, next) == IF o.exc = None THEN next ELSE "failed"

\* db.get_speech, then resolve_video_source
ResolveInputs(jid, P) ==
  {[P EXCEPT
      !.files = @ \cup {Resolve(f) : f \in o.new},
      !.run.speech_record = Some(P.speeches[P.jobs[jid].speech_id]),
      !.run.video_path = o.path,
      !.run.exc = o.exc,
      !.run.faults = @ \cup o.faults,
      !.run.made = @ \cup {Resolve(f) : f \in o.new},
      !.run.trail = Append(@, "resolve_inputs"),
      !.pc = After(o, "extract_audio")]
   : o \in ResolveVideoSource(P.files, jid, P.jobs[jid].video_source)}

ExtractAudio(jid, P) ==
  {[P EXCEPT
      !.files = @ \cup {Resolve(f) : f \in o.new},
      !.run.audio_path = o.path,
      !.run.exc = o.exc,
      !.run.faults = @ \cup o.faults,
      !.run.made = @ \cup {Resolve(f) : f \in o.new},
      !.run.trail = Append(@, "extract_audio"),
      !.pc = After(o, "transcribe")]
   : o \in ExtractAudioFromVideo(P.files, P.run.video_path.val)}

\* whisper.load_model(model_size): the object of the n-th load of the process
LoadedModel(size, n) == [size |-> size, load |-> n]

\* get_whisper_model that loads at every call
GetWhisperModelReload(cache, loads, size) ==
  {[cache |-> [k \in DOMAIN cache \cup {size} |->
                 IF k = size THEN LoadedModel(size, loads + 1) ELSE cache[k]],
    loads |-> loads + 1, model |-> Some(LoadedModel(size, loads + 1)), raised |-> FALSE],
   [cache |-> cache, loads |-> loads + 1, model |-> None, raised |-> TRUE]}

\* get_whisper_model(model_size) on _MODEL_CACHE after loads calls of
\* whisper.load_model: the cache, the model returned; load_model may raise,
\* and then nothing is stored.
GetWhisperModel(cache, loads, size) ==
  IF size \notin DOMAIN cache
    THEN {[cache |-> [k \in DOMAIN cache \cup {size} |->
                        IF k = size THEN LoadedModel(size, loads + 1) ELSE cache[k]],
           loads |-> loads + 1, model |-> Some(LoadedModel(size, loads + 1)),
           raised |-> FALSE],
          [cache |-> cache, loads |-> loads + 1, model |-> None, raised |-> TRUE]}
    ELSE {[cache |-> cache, loads |-> loads, model |-> Some(cache[size]), raised |-> FALSE]}

\* The words of a text: len(text.split())
RECURSIVE WordCount(_)
WordCount(t) ==
  LET s == LStrip(t)
      RECURSIVE DropWord(_)
      DropWord(u) == IF u # <<>> /\ u[1] \notin {" ", "\n"} THEN DropWord(Tail(u)) ELSE u
  IN IF s = <<>> THEN 0 ELSE 1 + WordCount(DropWord(s))

\* avg_logprob < -1.0, in tenths
LowConfidence == -10

\* What model.transcribe returns for the audio of a video: the text, the
\* avg_logprob of each segment in tenths, and the language, which is the
\* one asked for (the language column of a job is 'ko').
Transcription(ref) ==
  [text |-> SpokenText(ref),
   segments |-> IF ref = RefLocalVideo THEN <<-12, -3>> ELSE <<>>,
   language |-> "ko"]

RECURSIVE Sum(_)
Sum(q) == IF q = <<>> THEN 0 ELSE Head(q) + Sum(Tail(q))

\* analyze_transcription_quality(result): the report; avg_confidence is the
\* quotient sum / segment_count, kept as its two terms, 0.0 without segments
AnalyzeTranscriptionQuality(result) ==
  [word_count |-> WordCount(result.text),
   char_count |-> Len(result.text),
   segment_count |-> Len(result.segments),
   avg_confidence |->
     IF Len(result.segments) # 0
       THEN [sum |-> Sum(result.segments), count |-> Len(result.segments)]
       ELSE [sum |-> 0, count |-> 1],
   low_confidence_segments_count |->
     Cardinality({i \in 1..Len(result.segments) : result.segments[i] < LowConfidence})]

\* transcribe_audio: the result and its text, or an exception of the model
Transcribe(jid, P) ==
  {[P EXCEPT !.run.result = Some(Transcription(P.jobs[jid].video_source)),
             !.run.transcript_text = Transcription(P.jobs[jid].video_source).text,
             !.run.trail = Append(@, "transcribe"),
             !.pc = "extract_document"],
   [P EXCEPT !.run.exc = Raised("RuntimeError", LongLen),
             !.run.faults = @ \cup {"transcribe_error"},
             !.run.trail = Append(@, "transcribe"),
             !.pc = "failed"]}

\* if speech_record: try resolve_document_source except Exception: note the
\* error; else extract the text of the resolved document.
ExtractDocument(jid, P) ==
  {LET r == ExtractDocumentText(DocumentAt(P.run.speech_record.val.document_url.val))
       read == o.exc = None /\ o.path # None
   IN [P EXCEPT
         !.files = @ \cup {Resolve(f) : f \in o.new},
         !.run.document_path = o.path,
         !.run.document_text = IF read THEN r.full_text ELSE <<>>,
         !.run.document_info =
            IF o.exc # None THEN Some([error |-> o.exc.val])
            ELSE IF o.path = None THEN None
            ELSE Some([method |-> r.method, characters |-> Len(r.full_text),
                       details |-> r.details]),
         !.run.doc_exc = o.exc,
         !.run.faults = @ \cup o.faults,
         !.run.made = @ \cup {Resolve(f) : f \in o.new},
         !.run.trail = Append(@, "extract_document"),
         !.pc = "fuse"]
   : o \in ResolveDocumentSource(P.files, P.jobs[jid].speech_id,
                                 P.run.speech_record.val.document_url)}

\* update_speech_after_transcription writing the snippet to title as well
FuseRetitle(jid, P) ==
  {[P EXCEPT
      !.run.combined = CombinedSourceText(P.run.transcript_text, P.run.document_text),
      !.run.trail = Append(@, "fuse_and_generate"),
      !.speeches[P.jobs[jid].speech_id].speech_name =
         Snippet(P.run.transcript_text, P.run.document_text),
      !.speeches[P.jobs[jid].speech_id].title = "snippet",
      !.pc = "generate"]}

\* combined_source_text, then db.update_speech_after_transcription
Fuse(jid, P) ==
  {[P EXCEPT
      !.run.combined = CombinedSourceText(P.run.transcript_text, P.run.document_text),
      !.run.trail = Append(@, "fuse_and_generate"),
      !.speeches[P.jobs[jid].speech_id].speech_name =
         Snippet(P.run.transcript_text, P.run.document_text),
      !.pc = "generate"]}

(* ---------------------------------------------------------------------- *)
(* maybe_generate_questions and Database.store_questions                   *)
(* ---------------------------------------------------------------------- *)
\* A generator entry: the length of its question text without and with the
\* surrounding whitespace, and its model answer.
Entry(len, padded) ==
  [question |-> [len |-> len, padded |-> padded], model_answer |-> Some(<<"M">>)]

\* QuestionGenerator.generate_questions never raises: a failure of the API
\* call falls back to _generate_fallback_questions.  Its result, with the
\* name of what is unusual about it.
GenerateQuestionsResults ==
  {[raw |-> <<Entry(ShortQuestion, ShortQuestion + 1)>>, faults |-> {}],
   [raw |-> <<>>, faults |-> {"no_questions"}],
   [raw |-> <<Entry(LongQuestion, LongQuestion)>>, faults |-> {"long_question"}],
   [raw |-> <<Entry(ShortQuestion + 2, ShortQuestion + 2),
              [Entry(ShortQuestion, ShortQuestion) EXCEPT
                 !.model_answer = Some(<<"M", "NUL">>)]>>,
    faults |-> {"nul_character"}]}

\* entry.get("question", "").strip()
StripQuestion(q) == [q EXCEPT !.padded = q.len]

SanitizeEntry(entry) ==
  [question |-> StripQuestion(entry.question), answer |-> None,
   model_answer |-> entry.model_answer, improvement_tips |-> None,
   score |-> None]

\* the loop over raw_questions without the test of question_text
SanitizeKeepBlank(raw) == [i \in 1..Len(raw) |-> SanitizeEntry(raw[i])]

RECURSIVE Sanitize(_)
\* the loop over raw_questions: entries with a blank question are dropped
Sanitize(raw) ==
  IF raw = <<>> THEN <<>>
  ELSE IF StripQuestion(Head(raw).question).len = 0
    THEN Sanitize(Tail(raw))
    ELSE <<SanitizeEntry(Head(raw))>> \o Sanitize(Tail(raw))

\* sanitized_questions or None
OrNone(list) == IF list = <<>> THEN None ELSE Some(list)

\* The row inserted for a sanitized question
QuestionRow(q) ==
  [question |-> q.question, answer |-> q.answer, model_answer |-> q.model_answer,
   improvement_tips |-> q.improvement_tips, user_answer |-> None,
   ai_feedback |-> None, score |-> q.score]

\* question VARCHAR(255) NOT NULL: a longer value aborts the INSERT
FitsColumn(q) == q.question.padded <= QuestionMax

\* psycopg2 adapts a str parameter before the statement is sent: a NUL
\* character raises ValueError in the client
Adaptable(q) ==
  q.model_answer = None
  \/ \A i \in 1..Len(q.model_answer.val) : q.model_answer.val[i] # "NUL"

\* The number of rows executemany inserts before a row fails
Inserted(questions) ==
  IF \A i \in 1..Len(questions) : Adaptable(questions[i]) /\ FitsColumn(questions[i])
    THEN Len(questions)
    ELSE (CHOOSE i \in 1..Len(questions) :
            /\ ~(Adaptable(questions[i]) /\ FitsColumn(questions[i]))
            /\ \A k \in 1..(i - 1) : Adaptable(questions[k]) /\ FitsColumn(questions[k])) - 1

\* store_questions that inserts the new rows without the DELETE
StoreQuestionsMerge(rows, questions) ==
  LET n == Inserted(questions)
      new == [i \in 1..n |-> QuestionRow(questions[i])]
  IN IF n = Len(questions)
       THEN [rows |-> rows \o new, exc |-> None, open |-> None]
     ELSE IF ~Adaptable(questions[n + 1])
       THEN [rows |-> rows, exc |-> Raised("ValueError", ShortLen),
             open |-> Some(rows \o new)]
     ELSE [rows |-> rows, exc |-> Raised("StringDataRightTruncation", ShortLen),
           open |-> None]

\* Database.store_questions(speech_id, questions): the committed rows of the
\* speech after it, the exception raised, and the transaction left open.
\* executemany sends the INSERT row by row.  An error of the server (a
\* question longer than the column) leaves the transaction in error, and
\* the next connect() rolls it back; an exception raised in the client on a
\* parameter leaves the transaction open with its DELETE and the rows
\* inserted so far.
StoreQuestions(rows, questions) ==
  LET n == Inserted(questions)
      new == [i \in 1..n |-> QuestionRow(questions[i])]
  IN IF n = Len(questions)
       THEN [rows |-> IF questions = <<>> THEN rows ELSE new, exc |-> None,
             open |-> None]
     ELSE IF ~Adaptable(questions[n + 1])
       THEN [rows |-> rows, exc |-> Raised("ValueError", ShortLen),
             open |-> Some(new)]
     ELSE [rows |-> rows, exc |-> Raised("StringDataRightTruncation", ShortLen),
           open |-> None]

\* What a call of maybe_generate_questions did: the value returned, the
\* question rows of the speech after it, the exception raised, and as history
\* whether the generator was invoked and what it returned.
Generated(questions, rows, exc, open, faults, invoked, raw) ==
  [questions |-> questions, rows |-> rows, exc |-> exc, open |-> open,
   faults |-> faults, invoked |-> invoked, raw |-> raw]

\* The rest of maybe_generate_questions once the generator has returned g:
\* the sanitization, db.store_questions, return sanitized_questions or None
SanitizeAndStore(rows, g) ==
  LET sanitized == Sanitize(g.raw)
      stored == StoreQuestions(rows, sanitized)
  IN Generated(IF stored.exc = None THEN OrNone(sanitized) ELSE None,
               stored.rows, stored.exc, stored.open, g.faults, TRUE, g.raw)

\* maybe_generate_questions without the test of the job's flag
MaybeGenerateQuestionsAlways(source_text, flag, rows) ==
  IF IsBlank(source_text)
    THEN {Generated(None, rows, None, None, {}, FALSE, <<>>)}
    ELSE {SanitizeAndStore(rows, g) : g \in GenerateQuestionsResults}

\* maybe_generate_questions(source_text, job, db), for the flag
\* generate_questions of the job and the question rows of its speech
MaybeGenerateQuestions(source_text, flag, rows) ==
  IF ~flag \/ IsBlank(source_text)
    THEN {Generated(None, rows, None, None, {}, FALSE, <<>>)}
    ELSE {SanitizeAndStore(rows, g) : g \in GenerateQuestionsResults}

\* questions = maybe_generate_questions(combined_source_text, job, db)
GenerateQuestions(jid, P) ==
  {[P EXCEPT
      !.qrows[P.jobs[jid].speech_id] = g.rows,
      !.run.questions = g.questions,
      !.run.exc = g.exc,
      !.run.open = g.open,
      !.run.faults = @ \cup g.faults,
      !.pc = After(g, "persist")]
   : g \in MaybeGenerateQuestions(P.run.combined, P.jobs[jid].generate_questions,
                                  P.qrows[P.jobs[jid].speech_id])}

(* ---------------------------------------------------------------------- *)
(* Database.mark_completed, Database.mark_failed                           *)
(* ---------------------------------------------------------------------- *)
\* SET status = 'completed' alone, the result columns left for a later
\* statement
MarkCompletedRowStatusOnly(row, transcript, metadata, questions) ==
  [row EXCEPT !.status = "completed"]

\* UPDATE transcription_jobs SET status = 'completed', transcript = %s,
\* transcript_metadata = %s, questions = %s WHERE id = %s
MarkCompletedRow(row, transcript, metadata, questions) ==
  [row EXCEPT !.status = "completed", !.transcript = Some(transcript),
              !.transcript_metadata = Some(metadata), !.questions = questions]

\* error_message = f"{exc.__class__.__name__}: {exc}"
ErrorMessage(exc) == [of |-> exc, len |-> Len(exc.cls) + 2 + exc.len]

\* error_message[2000:]
TruncatedTail(msg) == [msg EXCEPT !.len = IF msg.len > ErrMax THEN msg.len - ErrMax ELSE 0]

\* error_message[:2000]
Truncated(msg) == [msg EXCEPT !.len = Min(msg.len, ErrMax)]

\* SET status = 'failed', error_message = %s with the whole message
MarkFailedRowWhole(row, msg) ==
  [row EXCEPT !.status = "failed", !.error_message = Some(msg)]

\* UPDATE transcription_jobs SET status = 'failed', error_message = %s
\* WHERE id = %s
MarkFailedRow(row, msg) ==
  [row EXCEPT !.status = "failed", !.error_message = Some(Truncated(msg))]

\* metadata = {**quality_info, "language": ..., "model_size": ...,
\* "speech_id": ..., "document": document_info}
Metadata(quality_info, result, sid, document_info) ==
  [word_count |-> quality_info.word_count,
   char_count |-> quality_info.char_count,
   segment_count |-> quality_info.segment_count,
   avg_confidence |-> quality_info.avg_confidence,
   low_confidence_segments_count |-> quality_info.low_confidence_segments_count,
   language |-> result.language, model_size |-> "medium",
   speech_id |-> sid, document |-> document_info]

\* transcript_text where process_job passes combined_source_text or
\* transcript_text
StoredTranscriptRaw(combined, transcript_text) == transcript_text

\* combined_source_text or transcript_text
StoredTranscript(combined, transcript_text) ==
  IF combined # <<>> THEN combined ELSE transcript_text

\* db.mark_completed(job["id"], combined_source_text or transcript_text, ...)
\* An error of the statement leaves the row as it was.
Persist(jid, P) ==
  {[P EXCEPT
      !.jobs[jid] = MarkCompletedRow(@,
         StoredTranscript(P.run.combined, P.run.transcript_text),
         Metadata(AnalyzeTranscriptionQuality(P.run.result.val), P.run.result.val,
                  P.jobs[jid].speech_id, P.run.document_info),
         P.run.questions),
      !.run.trail = Append(@, "persist"),
      !.pc = "cleanup"],
   [P EXCEPT
      !.run.exc = Raised("DataError", ShortLen),
      !.run.faults = @ \cup {"persist_error"},
      !.run.trail = Append(@, "persist"),
      !.pc = "failed"]}

\* except Exception as exc: db.mark_failed(job["id"], error_message)
\* The UPDATE of mark_failed is taken to succeed: the store is reachable
\* when the except clause runs.  Its connect() rolls back a transaction in
\* error and no other, and its commit commits what a transaction left open
\* on the connection holds.
MarkFailed(jid, P) ==
  {[P EXCEPT
      !.jobs[jid] = MarkFailedRow(@, ErrorMessage(P.run.exc.val)),
      !.qrows[P.jobs[jid].speech_id] =
         IF P.run.open # None THEN P.run.open.val ELSE @,
      !.run.trail = Append(@, "mark_failed"),
      !.pc = "cleanup"]}

(* ---------------------------------------------------------------------- *)
(* _cleanup_temp_artifacts                                                 *)
(* ---------------------------------------------------------------------- *)
ShouldDelete(resolved) == \E root \in CleanupRoots : IsRelativeTo(resolved, root)

\* The files unlinked when the containment test is made on the candidate as
\* given instead of on its resolved path
DeletedUnresolved(candidates) ==
  {Resolve(c.val) : c \in {x \in candidates :
                             x # None /\ \E root \in CleanupRoots : IsRelativeTo(x.val, root)}}

\* The files unlinked for the candidates video_path, audio_path, document_path
Deleted(candidates) ==
  {Resolve(c.val) : c \in {x \in candidates : x # None /\ ShouldDelete(Resolve(x.val))}}

\* finally: _cleanup_temp_artifacts(cleanup_roots, video_path, audio_path,
\* document_path); process_job returns.
Cleanup(jid, P) ==
  {[P EXCEPT
      !.files = @ \ Deleted({P.run.video_path, P.run.audio_path, P.run.document_path}),
      !.run.trail = Append(@, "cleanup"),
      !.pc = "returned"]}

\* The next states of a call of process_job that has not returned
StepOf(jid, P) ==
  CASE P.pc = "resolve_inputs" -> ResolveInputs(jid, P)
    [] P.pc = "extract_audio" -> ExtractAudio(jid, P)
    [] P.pc = "transcribe" -> Transcribe(jid, P)
    [] P.pc = "extract_document" -> ExtractDocument(jid, P)
    [] P.pc = "fuse" -> Fuse(jid, P)
    [] P.pc = "generate" -> GenerateQuestions(jid, P)
    [] P.pc = "persist" -> Persist(jid, P)
    [] P.pc = "failed" -> MarkFailed(jid, P)
    [] P.pc = "cleanup" -> Cleanup(jid, P)

RECURSIVE RunFrom(_, _, _)
\* The states in which a call of process_job can return when the
\* environment fails in no other way than those in allowed
RunFrom(jid, P, allowed) ==
  IF P.pc = "returned" THEN {P}
  ELSE UNION {RunFrom(jid, Q, allowed) :
                Q \in {X \in StepOf(jid, P) : X.run.faults \subseteq allowed}}

\* The failures of the environment
AllFaults ==
  {"http_error", "http_partial", "ytdlp_error", "s3_error", "ffmpeg_error",
   "ffmpeg_partial", "transcribe_error", "no_questions", "long_question",
   "nul_character", "persist_error"}

\* process_job(job, settings, s3_client, db), called by main() with the job
\* that fetch_next_job returned.  Its writes to a job row or to the question
\* rows wait for the transaction of update_speech_video that holds them.
\* <output_dir>/<stem>.mp3 of extract_audio_from_video, resolved
AudioTarget(video_path) ==
  Resolve(PathOf(AudioOutputDir,
                 FileName(video_path.name.prefix, video_path.name.stem, "mp3")))

\* The transcoder runs whose output file exists after a call of process_job
\* that ended in R: the run of this call, if ffmpeg wrote the output file,
\* replaces what was known of that file; exit is the exit status of ffmpeg.
Encoded(old, R) ==
  LET known ==
        IF R.run.video_path = None THEN old
        ELSE LET target == AudioTarget(R.run.video_path.val)
             IN IF target \in R.run.made
                  THEN {e \in old : e.file # target}
                       \cup {[file |-> target,
                               video |-> Resolve(R.run.video_path.val),
                               exit |-> IF "ffmpeg_partial" \in R.run.faults
                                          THEN 1 ELSE 0]}
                  ELSE old
  IN {e \in known : e.file \in R.files}

ProcessJob(w, allowed) ==
  /\ pc[w] = "processing"
  /\ rowLock[job[w]] = "free"
  /\ ~QuestionRowsLocked(jobs[job[w]].speech_id)
  /\ \E R \in RunFrom(job[w],
                [pc |-> "resolve_inputs", run |-> RunIdle, files |-> files,
                 jobs |-> jobs, speeches |-> speeches, qrows |-> qrows],
                allowed) :
       /\ files' = R.files
       /\ encoded' = Encoded(encoded, R)
       /\ jobs' = R.jobs
       /\ speeches' = R.speeches
       /\ qrows' = R.qrows
       /\ run' = [run EXCEPT ![w] = R.run]
  /\ pc' = [pc EXCEPT ![w] = "returned"]
  /\ UNCHANGED <<rowLock, api, claims, job, probe>>

\* The worker process dies inside process_job, before mark_completed or
\* mark_failed: nothing of it runs any more, the finally clause included.
Crash(w) ==
  /\ pc[w] = "processing"
  /\ pc' = [pc EXCEPT ![w] = "crashed"]
  /\ UNCHANGED <<store, job, files, encoded, run, probe>>

\* main(): processed_jobs += 1 and the loop goes back to fetch_next_job
MainLoop(w) ==
  /\ pc[w] = "returned"
  /\ pc' = [pc EXCEPT ![w] = "idle"]
  /\ job' = [job EXCEPT ![w] = 0]
  /\ run' = [run EXCEPT ![w] = RunIdle]
  /\ UNCHANGED <<store, files, encoded, probe>>

(* ---------------------------------------------------------------------- *)
(* Specifications                                                          *)
(* ---------------------------------------------------------------------- *)
SpeechRow(title, document_url) ==
  [title |-> title, speech_name |-> None, video_source |-> None,
   document_url |-> document_url]

\* No function is called on its own
NoProbe == [fn |-> "none"]

\* The state after construction, the variable probe apart, when the
\* speeches have the documents in docs attached
InitTables(docs) ==
  /\ jobs = <<>>
  /\ rowLock = <<>>
  /\ claims = <<>>
  /\ speeches = [s \in Speeches |-> SpeechRow("Untitled Speech", docs[s])]
  /\ qrows = [s \in Speeches |-> <<>>]
  /\ api = [c \in Clients |-> ApiIdle]
  /\ pc = [w \in Workers |-> "idle"]
  /\ job = [w \in Workers |-> 0]
  /\ run = [w \in Workers |-> RunIdle]
  /\ files = PermanentFiles
  /\ encoded = {}

InitStore ==
  InitTables([s \in Speeches |-> IF s = "s1" THEN Some(RefKeyDoc) ELSE Some(RefLocalDoc)])

Init == InitStore /\ probe = NoProbe

\* The requests of the clients, each for a speech and a new video source
\* among those in requests, and the steps of the store that serve them
ApiNextOf(callers, requests) ==
  \/ \E c \in callers, r \in requests : UpdateSpeechVideoBegin(c, r[1], r[2])
  \/ \E c \in callers, j \in JobIds : UpdateSpeechVideoLockRow(c, j)
  \/ \E c \in callers : UpdateSpeechVideoCommit(c)
  \/ \E c \in callers : CreateJob(c)

\* The requests of one client at a time
ApiNext(requests) == ApiNextOf({"a1"}, requests)

\* main() of a worker whose pipeline meets the failures in allowed
WorkerNext(w, allowed) ==
  \/ FetchNextJobSelect(w)
  \/ FetchNextJobCommit(w)
  \/ FetchNextJobNone(w)
  \/ ProcessJob(w, allowed)
  \/ MainLoop(w)

\* Concurrent workers; of the pipeline's failures only that of the model
Next ==
  \/ ApiNext(Speeches \X {RefLocalVideo})
  \/ \E w \in Workers : WorkerNext(w, {"transcribe_error"})

Spec == Init /\ [][Next]_vars

\* One worker; every failure of the environment
NextJob ==
  \/ ApiNext({<<"s1", RefLocalVideo>>, <<"s2", RefHttpVideo>>})
  \/ WorkerNext("w1", AllFaults)

SpecJob == Init /\ [][NextJob]_vars

\* Two workers that can die inside process_job; one speech, and no failure
\* of the environment
NextCrash ==
  \/ ApiNext({<<"s1", RefLocalVideo>>})
  \/ \E w \in Workers : WorkerNext(w, {})
  \/ \E w \in Workers : Crash(w)

SpecCrash == Init /\ [][NextCrash]_vars

\* One worker and speeches that have no document attached; every failure of
\* the environment but that of the statement of mark_completed
NextPlain ==
  \/ ApiNext(Speeches \X {RefLocalVideo})
  \/ WorkerNext("w1", AllFaults \ {"persist_error"})

SpecPlain == InitTables([s \in Speeches |-> None]) /\ probe = NoProbe /\ [][NextPlain]_vars

\* Two clients that replace the source of the same speech concurrently, and
\* one worker whose pipeline meets no failure
NextApi ==
  \/ ApiNextOf(Clients, {<<"s1", RefLocalVideo>>})
  \/ WorkerNext("w1", {})

SpecApi == Init /\ [][NextApi]_vars

\* The steps that end a request of the API once it has begun
ApiFinish ==
  \/ \E j \in JobIds : UpdateSpeechVideoLockRow("a1", j)
  \/ UpdateSpeechVideoCommit("a1")
  \/ CreateJob("a1")

\* A worker that runs and does not crash, a store that serves every
\* statement it was sent, and a pipeline whose stages return or raise
NextLive ==
  \/ ApiNext({<<"s1", RefLocalVideo>>})
  \/ WorkerNext("w1", {"transcribe_error"})

SpecLive ==
  /\ Init /\ [][NextLive]_vars
  /\ WF_vars(WorkerNext("w1", {"transcribe_error"}))
  /\ WF_vars(ApiFinish)

(* ---------------------------------------------------------------------- *)
(* Functions called on their own, on every input of a bounded set          *)
(* ---------------------------------------------------------------------- *)
Call(fn, arg) == [fn |-> fn, arg |-> arg, out |-> None]

Pending(fn) == probe.fn = fn /\ probe.out = None

Done(fn) == probe.fn = fn /\ probe.out # None

\* The text pdfplumber gives for a page
PageTexts == {<<>>, <<" ">>, <<"D">>, <<" ", "D", "\n", " ">>}

Pages == {Page(TRUE, <<>>)} \cup {Page(FALSE, t) : t \in PageTexts}

Ocrs == {OcrRaises, OcrReturns(<<>>), OcrReturns(<<"O", "\n", "\n">>)}

Documents ==
  {Document(FALSE, <<>>, o) : o \in Ocrs}
  \cup {Document(TRUE, ps, o) :
          ps \in UNION {[1..n -> Pages] : n \in 0..MaxPages}, o \in Ocrs}

\* extract_document_text(document_path)
CallExtractDocumentText ==
  /\ Pending("extract_document_text")
  /\ probe' = [probe EXCEPT !.out = Some(ExtractDocumentText(probe.arg))]
  /\ UNCHANGED <<store, pc, job, files, encoded, run>>

\* A bare object key, an s3:// reference with bucket and key, one without a
\* key, and an http:// URL
RefKeyVideo ==
  [scheme |-> "", dir |-> <<"uploads">>, name |-> FileName("", "talk", "mp4")]

RefS3Video ==
  [scheme |-> "s3://", dir |-> <<"bucket">>, name |-> FileName("", "talk", "mp4")]

RefS3NoKey ==
  [scheme |-> "s3://", dir |-> <<"bucket">>, name |-> FileName("", "", "")]

RefPlainHttpVideo ==
  [scheme |-> "http://", dir |-> <<"host">>, name |-> FileName("", "v", "mp4")]

VideoRefs ==
  {RefLocalVideo, RefHttpVideo, RefPlainHttpVideo, RefKeyVideo, RefS3Video,
   RefS3NoKey}

\* resolve_video_source(job, settings, s3_client), and when it returned, a
\* second call for the same job on the file system the first one left
CallResolveVideoSourceTwice ==
  /\ Pending("resolve_video_source")
  /\ \E first \in ResolveVideoSource(files, probe.arg.jid, probe.arg.ref) :
       LET fs == files \cup {Resolve(f) : f \in first.new}
       IN IF first.exc # None
            THEN /\ probe' = [probe EXCEPT !.out = Some([first |-> first, second |-> first])]
                 /\ files' = fs
            ELSE \E second \in ResolveVideoSource(fs, probe.arg.jid, probe.arg.ref) :
                   /\ probe' = [probe EXCEPT
                                  !.out = Some([first |-> first, second |-> second])]
                   /\ files' = fs \cup {Resolve(f) : f \in second.new}
  /\ UNCHANGED <<store, pc, job, run, encoded>>

\* The texts of at most MaxTextLen characters
Texts == UNION {[1..n -> {"A", " ", "\n"}] : n \in 0..MaxTextLen}

\* combined_source_text of process_job for a transcript and a document text
CallFuse ==
  /\ Pending("fuse")
  /\ probe' = [probe EXCEPT
                 !.out = Some(CombinedSourceText(probe.arg.transcript_text,
                                                 probe.arg.document_text))]
  /\ UNCHANGED <<store, pc, job, files, encoded, run>>

\* combined_source_text of process_job for a transcript and a document
\* text, as maybe_generate_questions gets it, and the row of the job after
\* mark_completed(job["id"], combined_source_text or transcript_text, ...)
CallFuseAndPersist ==
  /\ Pending("fuse_and_persist")
  /\ LET combined == CombinedSourceText(probe.arg.transcript_text,
                                        probe.arg.document_text)
     IN probe' = [probe EXCEPT !.out = Some(
          [source_text |-> combined,
           row |-> MarkCompletedRow(
                     [NewJobRow("s1", RefLocalVideo, 0) EXCEPT !.status = "processing"],
                     StoredTranscript(combined, probe.arg.transcript_text),
                     [document |-> None], None)])]
  /\ UNCHANGED <<store, pc, job, files, encoded, run>>

\* The question rows of a speech before a job: none, or one of an earlier job
EarlierRows ==
  {<<>>, <<QuestionRow(SanitizeEntry(Entry(ShortQuestion - 1, ShortQuestion)))>>}

\* maybe_generate_questions for a job of speech s1, and when it returned,
\* mark_completed with the value it returned
CallMaybeGenerateQuestions ==
  /\ Pending("maybe_generate_questions")
  /\ \E g \in MaybeGenerateQuestions(probe.arg.source_text, probe.arg.flag,
                                      probe.arg.rows) :
       probe' = [probe EXCEPT !.out = Some(
         [generated |-> g,
          row |-> IF g.exc = None
                    THEN MarkCompletedRow(
                           [NewJobRow("s1", RefLocalVideo, 0) EXCEPT
                              !.generate_questions = probe.arg.flag,
                              !.status = "processing"],
                           probe.arg.source_text, [document |-> None], g.questions)
                    ELSE [NewJobRow("s1", RefLocalVideo, 0) EXCEPT
                            !.generate_questions = probe.arg.flag,
                            !.status = "processing"]])]
  /\ UNCHANGED <<store, pc, job, files, encoded, run>>

\* Document references that are no local file: a bare key, an s3://
\* reference and an https:// URL, each of a supported and of an unsupported
\* extension
RefKeyText ==
  [scheme |-> "", dir |-> <<"uploads">>, name |-> FileName("", "notes", "txt")]

RefS3Doc ==
  [scheme |-> "s3://", dir |-> <<"bucket">>, name |-> FileName("", "slides", "pptx")]

RefS3Text ==
  [scheme |-> "s3://", dir |-> <<"bucket">>, name |-> FileName("", "notes", "txt")]

RefHttpDoc ==
  [scheme |-> "https://", dir |-> <<"host">>, name |-> FileName("", "slides", "pdf")]

RefHttpText ==
  [scheme |-> "https://", dir |-> <<"host">>, name |-> FileName("", "notes", "txt")]

DocumentRefs ==
  {RefLocalDoc, RefKeyDoc, RefKeyText, RefS3Doc, RefS3Text, RefHttpDoc, RefHttpText}

\* resolve_document_source(speech, settings, s3_client)
CallResolveDocumentSource ==
  /\ Pending("resolve_document_source")
  /\ \E o \in ResolveDocumentSource(files, probe.arg.sid, Some(probe.arg.ref)) :
       /\ probe' = [probe EXCEPT !.out = Some(o)]
       /\ files' = files \cup {Resolve(f) : f \in o.new}
  /\ UNCHANGED <<store, pc, job, run, encoded>>

\* configs of extract_text_from_pdf: --psm 6, 3, 4, 1
OcrConfigs == 4

\* What a run of tesseract can give for a page: an error, blanks only, a
\* digit, a letter and a digit, a digit and a syllable, a letter
TesseractOutcomes ==
  {TesseractRaises, TesseractReturns(<<" ", "\n">>), TesseractReturns(<<"1">>),
   TesseractReturns(<<"A", "1">>), TesseractReturns(<<"1", " ", "K">>),
   TesseractReturns(<<"A">>)}

PlainOutcomes ==
  {TesseractRaises, TesseractReturns(<<>>), TesseractReturns(<<"1", " ">>)}

\* The OCR of one page in PDFOCR.extract_text_from_pdf
CallPageOcrText ==
  /\ Pending("page_ocr_text")
  /\ probe' = [probe EXCEPT
                 !.out = Some(PageOcrText(probe.arg.configs, probe.arg.plain))]
  /\ UNCHANGED <<store, pc, job, run, files, encoded>>

\* Entries a generator can return: a question of blanks only, and two
\* questions with and without blanks around them
RawEntries ==
  {Entry(0, 1), Entry(ShortQuestion, ShortQuestion + 1),
   Entry(ShortQuestion - 1, ShortQuestion - 1)}

RawLists == UNION {[1..n -> RawEntries] : n \in 0..MaxRaw}

\* maybe_generate_questions from the point where generate_questions has
\* returned the list raw, for a speech with the question rows rows
CallSanitizeAndStore ==
  /\ Pending("sanitize_and_store")
  /\ probe' = [probe EXCEPT !.out =
                  Some(SanitizeAndStore(probe.arg.rows,
                                        [raw |-> probe.arg.raw, faults |-> {}]))]
  /\ UNCHANGED <<store, pc, job, run, files, encoded>>

\* The size classes of the jobs of one worker process, in order
ModelSizes == {"medium", "large"}

RequestSequences ==
  UNION {[1..n -> ModelSizes] : n \in 1..MaxRequests}

\* _MODEL_CACHE: Dict[str, Any] = {} when the module is loaded, and the
\* calls of get_whisper_model served so far
ModelCacheCall(sizes) ==
  [fn |-> "get_whisper_model", arg |-> sizes, out |-> None,
   cache |-> [k \in {} |-> None], loads |-> 0, served |-> <<>>]

\* transcribe_audio of the next job: model = get_whisper_model(model_size)
CallGetWhisperModel ==
  /\ probe.fn = "get_whisper_model"
  /\ Len(probe.served) < Len(probe.arg)
  /\ \E g \in GetWhisperModel(probe.cache, probe.loads,
                               probe.arg[Len(probe.served) + 1]) :
       probe' = [probe EXCEPT
                   !.cache = g.cache, !.loads = g.loads,
                   !.served = Append(@, [size |-> probe.arg[Len(probe.served) + 1],
                                         model |-> g.model,
                                         loaded |-> g.loads # probe.loads])]
  /\ UNCHANGED <<store, pc, job, run, files, encoded>>

\* Messages around the width kept by mark_failed: "RuntimeError: " and the
\* str() of the exception
Messages ==
  {ErrorMessage([cls |-> "RuntimeError", len |-> n]) :
     n \in {0, ShortLen, ErrMax - 15, ErrMax - 14, LongLen - 14, LongLen}}

\* The rows mark_failed can find under an id
FailingRows ==
  {[NewJobRow("s1", RefLocalVideo, 1) EXCEPT !.status = st] :
     st \in {"processing", "cancelled"}}

\* db.mark_failed(job_id, error_message) on the row of that id
CallMarkFailed ==
  /\ Pending("mark_failed")
  /\ probe' = [probe EXCEPT !.out = Some(MarkFailedRow(probe.arg.row, probe.arg.msg))]
  /\ UNCHANGED <<store, pc, job, run, files, encoded>>

ProbeCalls ==
  {Call("page_ocr_text", [configs |-> q, plain |-> d]) :
     q \in [1..OcrConfigs -> TesseractOutcomes], d \in PlainOutcomes} \cup
  {Call("sanitize_and_store", [raw |-> q, rows |-> r]) :
     q \in RawLists, r \in EarlierRows} \cup
  {ModelCacheCall(q) : q \in RequestSequences} \cup
  {Call("mark_failed", [row |-> r, msg |-> g]) : r \in FailingRows, g \in Messages} \cup
  {Call("extract_document_text", d) : d \in Documents}
  \cup {Call("resolve_document_source", [sid |-> sp, ref |-> r]) :
           sp \in Speeches, r \in DocumentRefs}
  \cup {Call("maybe_generate_questions",
               [source_text |-> t, flag |-> f, rows |-> r]) :
           t \in Texts, f \in BOOLEAN, r \in EarlierRows}
  \cup {Call("fuse", [transcript_text |-> t, document_text |-> d]) :
           t \in Texts, d \in Texts}
  \cup {Call("fuse_and_persist", [transcript_text |-> t, document_text |-> d]) :
           t \in Texts, d \in Texts}
  \cup {Call("resolve_video_source", [jid |-> j, ref |-> r]) :
           j \in 1..MaxJobs, r \in VideoRefs}

InitFn == InitStore /\ probe \in ProbeCalls

NextFn ==
  \/ CallExtractDocumentText
  \/ CallResolveVideoSourceTwice
  \/ CallFuse
  \/ CallMaybeGenerateQuestions
  \/ CallResolveDocumentSource
  \/ CallMarkFailed
  \/ CallGetWhisperModel
  \/ CallSanitizeAndStore
  \/ CallPageOcrText
  \/ CallFuseAndPersist

SpecFn == InitFn /\ [][NextFn]_vars

(* ---------------------------------------------------------------------- *)
(* Properties                                                              *)
(* ---------------------------------------------------------------------- *)
Holding(w) == pc[w] \in {"claiming", "processing", "returned"}

\* C1: every job is returned by at most one fetch_next_job call, and no two
\* workers hold the same job at the same time.
NoDoubleClaim ==
  /\ \A j \in JobIds : claims[j] <= 1
  /\ \A w1, w2 \in Workers :
       (w1 # w2 /\ Holding(w1) /\ Holding(w2)) => job[w1] # job[w2]

\* Two workers are inside fetch_next_job at once, each with its own row
\* locked: the second skipped the row the first had locked.
NoDoubleClaimWitness ==
  \E w1, w2 \in Workers :
    /\ w1 # w2
    /\ pc[w1] = "claiming" /\ pc[w2] = "claiming"
    /\ jobs[job[w1]].created_at <= jobs[job[w2]].created_at

\* C2: once a job is cancelled, nothing changes its row any more.
CancelledIsTerminal ==
  [][\A j \in JobIds : jobs[j].status = "cancelled" => jobs'[j] = jobs[j]]_vars

Returned(w) == pc[w] = "returned"

\* C3: a job whose run raised at a stage is failed, has a non-empty error
\* message and no transcript; and so is every failed job.
FailedJobHasErrorAndNoTranscript ==
  /\ \A w \in Workers :
       (Returned(w) /\ run[w].exc # None) => jobs[job[w]].status = "failed"
  /\ \A j \in JobIds :
       jobs[j].status = "failed" =>
         /\ jobs[j].error_message # None
         /\ jobs[j].error_message.val.len >= 1
         /\ jobs[j].transcript = None

\* process_job returned after mark_completed raised: the last stage failed.
FailedAtPersistWitness ==
  \E w \in Workers :
    /\ Returned(w)
    /\ "persist_error" \in run[w].faults
    /\ jobs[job[w]].status = "failed"

\* C4: a job that is pending when the transaction of update_speech_video for
\* its speech commits is cancelled by it; a job that is not pending never
\* becomes pending again and is not returned by fetch_next_job.
CancelledPendingNeverClaimed ==
  [][\A j \in JobIds :
       /\ (/\ jobs[j].status = "pending"
           /\ \E c \in Clients : /\ api[c].pc = "cancel" /\ api'[c].pc = "create"
                                 /\ api[c].speech = jobs[j].speech_id)
          => jobs'[j].status = "cancelled"
       /\ jobs[j].status # "pending"
          => (jobs'[j].status # "pending" /\ claims'[j] = claims[j])]_vars

\* A job was cancelled before any worker claimed it, and a worker has since
\* claimed a younger job.
CancelledPendingWitness ==
  \E j, k \in JobIds :
    /\ j < k
    /\ jobs[j].status = "cancelled" /\ claims[j] = 0
    /\ claims[k] = 1

StateOrder ==
  <<"resolve_inputs", "extract_audio", "transcribe", "extract_document",
    "fuse_and_generate", "persist">>

\* The states executed by a run that raised: those up to the raising one, in
\* order, then the except clause and cleanup, once each.
StoppedAtRaise(trail) ==
  \E n \in 1..Len(StateOrder) :
    trail = SubSeq(StateOrder, 1, n) \o <<"mark_failed", "cleanup">>

\* C5: an exception raised at any state, that of document resolution in
\* extract_document included, fails the job with the message
\* "<class>: <message>", skips the later states and runs cleanup once.
AnyExceptionFailsJob ==
  \A w \in Workers :
    Returned(w) =>
      LET raised == IF run[w].exc # None THEN run[w].exc ELSE run[w].doc_exc
      IN raised # None =>
           /\ jobs[job[w]].status = "failed"
           /\ jobs[job[w]].error_message =
                Some([of |-> raised.val,
                      len |-> Len(raised.val.cls) + 2 + raised.val.len])
           /\ StoppedAtRaise(run[w].trail)

IsUnderScratch(f) ==
  \/ (Len(f.dir) >= 1 /\ f.dir[1] = "downloads")
  \/ (Len(f.dir) >= 1 /\ f.dir[1] = "audio")

\* C6: every file that disappears is under downloads_dir or audio_output_dir,
\* and the local sources outside them still exist.
CleanupStaysInScratch ==
  [][/\ \A f \in files \ files' : IsUnderScratch(f)
     /\ PermanentFiles \subseteq files']_vars

\* A run whose video and document were local files outside the scratch
\* roots, given through a scratch root and "..", returned after cleanup
\* deleted its audio file.
CleanupStaysInScratchWitness ==
  \E w \in Workers :
    /\ Returned(w)
    /\ run[w].video_path = Some(PotentialPath(RefLocalVideo))
    /\ run[w].audio_path # None
    /\ Resolve(run[w].audio_path.val) \in run[w].made
    /\ Resolve(run[w].audio_path.val) \notin files

\* C7: when process_job returns, no file that the run created still exists.
CleanupIsComplete ==
  \A w \in Workers : Returned(w) => run[w].made \cap files = {}

\* C8: when transcription succeeded and mark_completed did not fail, the job
\* ends completed with its transcript, whatever happened in
\* maybe_generate_questions.
QuestionFailureIsNotFatal ==
  \A w \in Workers :
    (/\ Returned(w)
     /\ Len(run[w].trail) >= 3 /\ run[w].trail[3] = "transcribe"
     /\ "transcribe_error" \notin run[w].faults
     /\ "persist_error" \notin run[w].faults)
    => (jobs[job[w]].status = "completed" /\ jobs[job[w]].transcript # None)

\* C9: fetch_next_job returns the oldest pending row that no transaction has
\* locked, and on commit makes it processing with no error message, changing
\* nothing else; it returns nothing only when there is no such row, and then
\* changes no row.
FetchReturnsOldestPending ==
  [][\A w \in Workers :
       /\ (pc[w] = "idle" /\ pc'[w] = "claiming") =>
            /\ jobs[job'[w]].status = "pending"
            /\ rowLock[job'[w]] = "free"
            /\ \A k \in JobIds :
                 (jobs[k].status = "pending" /\ rowLock[k] = "free")
                   => jobs[job'[w]].created_at <= jobs[k].created_at
            /\ jobs' = jobs
       /\ (pc[w] = "claiming" /\ pc'[w] = "processing") =>
            /\ jobs[job[w]].status = "pending"
            /\ jobs' = [jobs EXCEPT ![job[w]].status = "processing",
                                    ![job[w]].error_message = None]
       /\ (pc[w] = "idle" /\ pc'[w] = "exited") =>
            /\ \A k \in JobIds : jobs[k].status # "pending" \/ rowLock[k] # "free"
            /\ jobs' = jobs]_vars

\* A worker has locked the oldest pending row while a younger pending row
\* is unlocked.
FetchReturnsOldestWitness ==
  \E w \in Workers :
    /\ pc[w] = "claiming"
    /\ \E k \in JobIds :
         /\ jobs[k].status = "pending" /\ rowLock[k] = "free"
         /\ jobs[k].created_at > jobs[job[w]].created_at

\* C10: a job starts pending; its status changes only pending -> processing,
\* processing -> completed, processing -> failed and pending or processing ->
\* cancelled; a job is processing only if fetch_next_job returned it.
JobLifecycle ==
  [][/\ \A j \in JobIds :
          \/ jobs'[j].status = jobs[j].status
          \/ <<jobs[j].status, jobs'[j].status>> \in
               {<<"pending", "processing">>, <<"processing", "completed">>,
                <<"processing", "failed">>, <<"pending", "cancelled">>,
                <<"processing", "cancelled">>}
     /\ \A j \in 1..Len(jobs') :
          /\ jobs'[j].status \in Statuses
          /\ j \notin JobIds => jobs'[j].status = "pending"
          /\ jobs'[j].status = "processing" => claims'[j] >= 1]_vars

\* The direct extraction gave no text but page separators and whitespace
DirectTextIsBlank(doc) == IsBlank(ExtractWithPdfplumber(doc).full_text)

\* C11: when the direct extraction gives no non-empty text, the OCR method
\* is invoked and its text is the result, with method "ocr"; when it gives
\* some, OCR is not invoked and the direct text is the result.
OcrIffNoDirectText ==
  Done("extract_document_text") =>
    LET doc == probe.arg
        r == probe.out.val
    IN /\ (DirectTextIsBlank(doc) /\ ~doc.ocr.raises) =>
            /\ r.method = "ocr"
            /\ r.details.of = "secondary"
            /\ r.full_text = doc.ocr.full_text
       /\ ~DirectTextIsBlank(doc) =>
            /\ r.method = "pdfplumber"
            /\ r.details.of = "primary"
            /\ r.full_text = ExtractWithPdfplumber(doc).full_text

\* Neither pdfplumber nor OCR can read the document attached to the speech
\* of the job that worker w has run.
BothExtractorsFail(w) ==
  LET doc == DocumentAt(run[w].speech_record.val.document_url.val)
  IN ~ExtractWithPdfplumber(doc).success /\ doc.ocr.raises

\* C12: when both extractors fail for the attached document, the document
\* text is empty, and unless transcription failed the job is completed with
\* its transcript and with the error note under "document" in its metadata.
DocumentFailureIsNotFatal ==
  \A w \in Workers :
    (/\ Returned(w)
     /\ run[w].document_path # None
     /\ BothExtractorsFail(w)
     /\ "transcribe_error" \notin run[w].faults)
    => /\ run[w].document_text = <<>>
       /\ jobs[job[w]].status = "completed"
       /\ jobs[job[w]].transcript = Some(run[w].transcript_text)
       /\ jobs[job[w]].transcript_metadata # None
       /\ jobs[job[w]].transcript_metadata.val.document # None
       /\ LET document == jobs[job[w]].transcript_metadata.val.document.val
          IN /\ document.method = "unavailable"
             /\ document.characters = 0
             /\ document.details.error # None

\* A job with a spoken transcript and an unreadable document is completed.
DocumentFailureWitness ==
  \E w \in Workers :
    /\ Returned(w)
    /\ run[w].document_path # None
    /\ BothExtractorsFail(w)
    /\ run[w].transcript_text = <<"A">>
    /\ jobs[job[w]].status = "completed"

\* C13: a second resolution of the same reference for the same job returns
\* the path the first one returned and downloads nothing.
ResolutionIsIdempotent ==
  (Done("resolve_video_source") /\ probe.out.val.first.exc = None) =>
    /\ probe.out.val.second.exc = None
    /\ probe.out.val.second.path = probe.out.val.first.path
    /\ probe.out.val.second.new = {}

\* Every character of t is white space
OnlyWhitespace(t) == \A i \in 1..Len(t) : t[i] = " " \/ t[i] = "\n"

\* C14: the combined text is the transcript when the document text is blank,
\* the document text when the transcript is blank, empty when both are, and
\* otherwise transcript, blank line, document text.
FusionOrder ==
  Done("fuse") =>
    LET t == probe.arg.transcript_text
        d == probe.arg.document_text
        out == probe.out.val
    IN /\ (OnlyWhitespace(t) /\ OnlyWhitespace(d)) => out = <<>>
       /\ (~OnlyWhitespace(t) /\ OnlyWhitespace(d)) => out = t
       /\ (OnlyWhitespace(t) /\ ~OnlyWhitespace(d)) => out = d
       /\ (~OnlyWhitespace(t) /\ ~OnlyWhitespace(d)) => out = t \o <<"\n", "\n">> \o d

\* A transcript fused with a document text of white space only
FusionOrderWitness ==
  /\ Done("fuse")
  /\ probe.arg.transcript_text = <<"A">>
  /\ probe.arg.document_text = <<" ">>
  /\ probe.out.val = <<"A">>

\* Some entry of raw has a question text that is not blank
SomeEntrySurvives(raw) == \E i \in 1..Len(raw) : raw[i].question.len > 0

\* C15: the questions of a completed job are non-null only if the flag was
\* set, the text was not blank and the generator returned an entry that
\* survives sanitization; with the flag unset or the text blank the
\* generator is not invoked and the question rows are as they were.
QuestionsOnlyWhenGenerated ==
  Done("maybe_generate_questions") =>
    LET arg == probe.arg
        g == probe.out.val.generated
        row == probe.out.val.row
    IN /\ (row.status = "completed" /\ row.questions # None) =>
            /\ arg.flag
            /\ ~OnlyWhitespace(arg.source_text)
            /\ g.invoked
            /\ SomeEntrySurvives(g.raw)
       /\ (~arg.flag \/ OnlyWhitespace(arg.source_text)) =>
            /\ ~g.invoked
            /\ g.rows = arg.rows
            /\ row.status = "completed"
            /\ row.questions = None

\* A job with the flag unset, a text to ask about and question rows of an
\* earlier job is completed without questions, the rows untouched.
QuestionsOnlyWhenGeneratedWitness ==
  /\ Done("maybe_generate_questions")
  /\ ~probe.arg.flag
  /\ probe.arg.source_text = <<"A">>
  /\ probe.arg.rows # <<>>
  /\ probe.out.val.generated.rows = probe.arg.rows
  /\ probe.out.val.row.status = "completed"

\* C16: a job for which the resolution of its video source or of the
\* document source of its speech raised ends failed.
ResolutionErrorsAreFatal ==
  \A w \in Workers :
    (/\ Returned(w)
     /\ \/ run[w].doc_exc # None
        \/ (run[w].exc # None /\ run[w].trail[Len(run[w].trail) - 2] = "resolve_inputs"))
    => jobs[job[w]].status = "failed"

\* C17: a call of process_job whose job ends failed leaves speech_name and
\* the question rows of the job's speech as they were.
DerivedDataOnlyOnSuccess ==
  [][\A w \in Workers :
       (/\ pc[w] = "processing"
        /\ pc'[w] = "returned"
        /\ jobs'[job[w]].status = "failed")
       => LET s == jobs[job[w]].speech_id
          IN /\ speeches'[s].speech_name = speeches[s].speech_name
             /\ qrows'[s] = qrows[s]]_vars

\* The scratch files that the run of worker w created, reused or handed to
\* cleanup
ScratchFilesOf(w) ==
  {f \in run[w].made
         \cup {Resolve(c.val) : c \in {x \in {run[w].video_path, run[w].audio_path,
                                               run[w].document_path} : x # None}} :
     IsUnderScratch(f)}

\* C18: every scratch file of a job has the job's id in its name.
ScratchNamespacedByJob ==
  \A w \in Workers :
    Returned(w) => \A f \in ScratchFilesOf(w) : f.name.prefix = ToString(job[w])

PipelineKeepsSpeechFields ==
  [][(\E w \in Workers : pc'[w] # pc[w]) =>
       \A s \in Speeches :
         /\ speeches'[s].title = speeches[s].title
         /\ speeches'[s].video_source = speeches[s].video_source
         /\ speeches'[s].document_url = speeches[s].document_url]_vars

\* A job has rewritten the speech_name of a speech whose title and video
\* source the API had set.
PipelineKeepsSpeechFieldsWitness ==
  \E w \in Workers :
    /\ Returned(w)
    /\ LET row == speeches[jobs[job[w]].speech_id]
       IN /\ row.speech_name = Some(<<"A">>) \/ row.speech_name = Some(<<"A", "\n", "\n", "D">>)
          /\ row.title = "talk"
          /\ row.video_source = Some(RefLocalVideo)

\* C21: a job that is processing is the job of exactly one worker, which is
\* inside process_job for it; a worker that is about to call fetch_next_job
\* or has left its loop holds no job.
WorkerIsSequential ==
  /\ \A j \in JobIds :
       jobs[j].status = "processing" =>
         Cardinality({w \in Workers : job[w] = j /\ pc[w] = "processing"}) = 1
  /\ \A w \in Workers : pc[w] \in {"idle", "exited"} => job[w] = 0

\* The worker has finished one job and its fetch_next_job has selected the
\* next.
WorkerIsSequentialWitness ==
  /\ pc["w1"] = "claiming"
  /\ \E j \in JobIds : j # job["w1"] /\ jobs[j].status \in {"completed", "failed"}

\* C22: for a document reference that is no existing local file and has no
\* supported extension, the resolver makes no HTTP request and no
\* object-storage download: it writes no file and meets no failure of the
\* network.
UnsupportedDocumentNotFetched ==
  (/\ Done("resolve_document_source")
   /\ probe.arg.ref # RefLocalDoc
   /\ probe.arg.ref.name.ext \notin {"pdf", "ppt", "pptx"})
  => /\ probe.out.val.new = {}
     /\ probe.out.val.faults = {}

\* C23: a job that is processing never becomes pending; it leaves processing
\* only by the process_job of the worker that holds it or by a cancellation;
\* and fetch_next_job returns only jobs that are pending.
NoRequeue ==
  [][\A j \in JobIds :
       /\ jobs[j].status = "processing" =>
            \/ jobs'[j].status = "processing"
            \/ jobs'[j].status = "cancelled"
            \/ \E w \in Workers :
                 job[w] = j /\ pc[w] = "processing" /\ pc'[w] = "returned"
       /\ jobs[j].status # "pending" => jobs'[j].status # "pending"
       /\ claims'[j] # claims[j] => jobs[j].status = "pending"]_vars

\* A worker died with its job, the job is still processing, and the other
\* worker has found nothing to fetch and left.
NoRequeueWitness ==
  \E w, v \in Workers :
    /\ pc[w] = "crashed"
    /\ jobs[job[w]].status = "processing"
    /\ pc[v] = "exited"

\* C24: a job whose source is an existing local video and whose speech has
\* no document, and whose audio extraction and transcription succeeded, has
\* ended completed, with the word count, the segment count and the language
\* of its transcription in its metadata, however low the confidence is.
EndToEndSuccess ==
  \A w \in Workers :
    (/\ Returned(w)
     /\ jobs[job[w]].video_source = RefLocalVideo
     /\ speeches[jobs[job[w]].speech_id].document_url = None
     /\ run[w].result # None)
    => /\ jobs[job[w]].status = "completed"
       /\ jobs[job[w]].transcript_metadata # None
       /\ jobs[job[w]].transcript_metadata.val.word_count = WordCount(run[w].result.val.text)
       /\ jobs[job[w]].transcript_metadata.val.segment_count = Len(run[w].result.val.segments)
       /\ jobs[job[w]].transcript_metadata.val.language = run[w].result.val.language

\* C25: mark_failed stores the first 2000 characters of the message, the
\* whole message when it is not longer, and sets the status to failed in
\* the same statement; no other column changes.
MarkFailedTruncates ==
  Done("mark_failed") =>
    /\ probe.out.val.status = "failed"
    /\ probe.out.val.error_message # None
    /\ probe.out.val.error_message.val.of = probe.arg.msg.of
    /\ probe.out.val.error_message.val.len =
         (IF probe.arg.msg.len <= 2000 THEN probe.arg.msg.len ELSE 2000)
    /\ probe.out.val = [probe.arg.row EXCEPT
                          !.status = "failed",
                          !.error_message = probe.out.val.error_message]

\* A message of 2001 characters was stored as its first 2000
MarkFailedTruncatesWitness ==
  /\ Done("mark_failed")
  /\ probe.arg.msg.len = 2001
  /\ probe.out.val.error_message.val.len = 2000

\* C26: a call of process_job that reached extract_audio_from_video ran the
\* transcoder exactly when <audio output dir>/<video stem>.mp3 did not
\* exist; the call without a failure of the transcoder returned that path;
\* and the job of a call whose transcoder exited non-zero is failed.
TranscodeOnlyWhenMissing ==
  [][\A w \in Workers :
       (/\ pc[w] = "processing" /\ pc'[w] = "returned"
        /\ run'[w].video_path # None)
       => LET video == run'[w].video_path.val
              target == [dir |-> <<"audio">>,
                         name |-> [prefix |-> video.name.prefix,
                                   stem |-> video.name.stem, ext |-> "mp3"]]
              nonzero == run'[w].faults \cap {"ffmpeg_error", "ffmpeg_partial"} # {}
              invoked == target \in run'[w].made \/ nonzero
          IN /\ invoked <=> target \notin files
             /\ ~nonzero => run'[w].audio_path = Some(target)
             /\ nonzero => jobs'[job[w]].status = "failed"]_vars

\* A job found the audio file of its video left by an earlier run and got
\* its path without the transcoder running.
TranscodeOnlyWhenMissingWitness ==
  \E w \in Workers :
    /\ Returned(w)
    /\ run[w].audio_path # None
    /\ run[w].audio_path.val \notin run[w].made
    /\ jobs[job[w]].status = "completed"

\* The calls of get_whisper_model served so far
Served == IF probe.fn = "get_whisper_model" THEN probe.served ELSE <<>>

\* C27 as stated: each size class is loaded at most once, every later
\* request of that size gets the same model, and the keys of the cache are
\* exactly the size classes requested so far.
ModelCacheKeysAreRequested ==
  probe.fn = "get_whisper_model" =>
    /\ \A i, j \in 1..Len(Served) :
         (i < j /\ Served[i].size = Served[j].size) =>
           /\ ~Served[j].loaded
           /\ Served[j].model = Served[i].model
    /\ DOMAIN probe.cache = {Served[i].size : i \in 1..Len(Served)}

\* C27, amended: each size class is loaded with success at most once, every
\* request of that size from then on gets that same model, no entry is
\* evicted or replaced, and the keys of the cache are exactly the size
\* classes whose load has succeeded: a size whose load raised is not cached
\* and is loaded again at its next request.
ModelCacheKeysAreLoaded ==
  probe.fn = "get_whisper_model" =>
    /\ \A i, j \in 1..Len(Served) :
         (i < j /\ Served[i].size = Served[j].size /\ Served[i].model # None) =>
           /\ ~Served[j].loaded
           /\ Served[j].model = Served[i].model
    /\ \A i \in 1..Len(Served) :
         Served[i].model # None =>
           /\ Served[i].size \in DOMAIN probe.cache
           /\ Some(probe.cache[Served[i].size]) = Served[i].model
    /\ DOMAIN probe.cache =
         {Served[i].size : i \in {k \in 1..Len(Served) : Served[k].model # None}}

\* Three jobs: the load for the first raised, the second loaded the model of
\* the same size, the third got it from the cache.
ModelCacheWitness ==
  /\ probe.fn = "get_whisper_model"
  /\ Len(Served) = 3
  /\ Served[1].model = None
  /\ Served[2].loaded /\ Served[2].model # None
  /\ ~Served[3].loaded /\ Served[3].model = Served[2].model

\* C28: resolve_video_source (a) returns an existing local path unchanged
\* and downloads nothing; (b) otherwise, for an http:// or https://
\* reference, returns the file of the web-video extractor, and only when
\* the extractor failed the file of the streamed HTTP download, and raises
\* a download error when both failed; (c) otherwise returns the object
\* downloaded to <downloads>/<job id>_<name> or raises the error of the
\* download, and for an s3:// reference without bucket or key raises
\* without any download.
VideoResolutionOrder ==
  Done("resolve_video_source") =>
    LET o == probe.out.val.first
        ref == probe.arg.ref
        id == ToString(probe.arg.jid)
        local == [dir |-> ref.dir, name |-> ref.name]
        extracted == [dir |-> <<"downloads">>,
                      name |-> [prefix |-> id, stem |-> "title", ext |-> "webm"]]
        streamed == [dir |-> <<"downloads">>,
                     name |-> [prefix |-> id, stem |-> "video", ext |-> "mp4"]]
        object == [dir |-> <<"downloads">>,
                   name |-> [prefix |-> id, stem |-> ref.name.stem, ext |-> ref.name.ext]]
        http == {"http_error", "http_partial"}
    IN IF ref = RefLocalVideo
         THEN o = Outcome(Some(local), {}, None, {})
       ELSE IF ref.scheme \in {"http://", "https://"}
         THEN \/ o = Outcome(Some(extracted), {extracted}, None, {})
              \/ /\ "ytdlp_error" \in o.faults
                 /\ \/ o = Outcome(Some(streamed), {streamed}, None, {"ytdlp_error"})
                    \/ /\ o.path = None
                       /\ o.exc # None /\ o.exc.val.cls = "RuntimeError"
                       /\ o.faults \cap http # {}
       ELSE IF ref.scheme = "s3://" /\ (ref.dir = <<>> \/ ref.name.stem = "")
         THEN /\ o.path = None /\ o.new = {} /\ o.faults = {}
              /\ o.exc # None /\ o.exc.val.cls = "ValueError"
       ELSE \/ o = Outcome(Some(object), {object}, None, {})
            \/ /\ o.path = None /\ o.new = {} /\ o.faults = {"s3_error"}
               /\ o.exc # None /\ o.exc.val.cls = "RuntimeError"

\* The extractor failed on an https:// reference and the streamed download
\* gave the video
VideoResolutionOrderWitness ==
  /\ Done("resolve_video_source")
  /\ probe.arg.ref = RefHttpVideo
  /\ probe.out.val.first.faults = {"ytdlp_error"}
  /\ probe.out.val.first.exc = None
  /\ probe.out.val.first.path # None

\* A question that is not blank once trimmed
HasQuestion(entry) == entry.question.len > 0

\* C29: the sanitized list is the raw list without the entries whose
\* question is blank after trimming, in the same order, each with the
\* trimmed question, its model answer, and answer, improvement_tips and
\* score null; and an empty sanitized list is returned as null, without an
\* exception and with the stored question rows of the speech unchanged.
SanitizationDropsBlank ==
  Done("sanitize_and_store") =>
    LET kept == SelectSeq(probe.arg.raw, HasQuestion)
        g == probe.out.val
    IN /\ g.exc = None
       /\ kept = <<>> => g.questions = None /\ g.rows = probe.arg.rows
       /\ kept # <<>> =>
            /\ g.questions # None
            /\ Len(g.questions.val) = Len(kept)
            /\ \A i \in 1..Len(kept) :
                 g.questions.val[i] =
                   [question |-> [len |-> kept[i].question.len,
                                  padded |-> kept[i].question.len],
                    answer |-> None, model_answer |-> kept[i].model_answer,
                    improvement_tips |-> None, score |-> None]

\* Every entry of the generator was blank: null was returned and the rows of
\* an earlier job are still there
SanitizationDropsBlankWitness ==
  /\ Done("sanitize_and_store")
  /\ Len(probe.arg.raw) = 2
  /\ \A i \in 1..2 : probe.arg.raw[i].question.len = 0
  /\ probe.arg.rows # <<>>
  /\ probe.out.val.questions = None
  /\ probe.out.val.rows = probe.arg.rows

\* The letters of a text, Hangul or ASCII, and its characters other than
\* space and newline
Letters(t) == Cardinality({i \in 1..Len(t) : t[i] \in {"A", "K"}})

Inked(t) == Cardinality({i \in 1..Len(t) : t[i] \notin {" ", "\n"}})

\* C30: with the configurations that ran without error and gave a character
\* that is not whitespace as candidates, and letters / inked characters as
\* score: when a candidate has a score above zero, the text of the page is
\* that of the earliest candidate of maximal score; when none has, it is the
\* outcome of the one further run without configuration.
OcrVoting ==
  Done("page_ocr_text") =>
    LET outs == probe.arg.configs
        cand == {i \in 1..Len(outs) : ~outs[i].raises /\ Inked(outs[i].text) > 0}
        AtLeast(i, j) ==
          Letters(outs[i].text) * Inked(outs[j].text)
            >= Letters(outs[j].text) * Inked(outs[i].text)
    IN IF \E i \in cand : Letters(outs[i].text) > 0
         THEN \E i \in cand :
                /\ \A j \in cand : AtLeast(i, j)
                /\ \A j \in cand : j < i => ~AtLeast(j, i)
                /\ probe.out.val = [raises |-> FALSE, text |-> outs[i].text]
         ELSE probe.out.val = probe.arg.plain

\* The first configuration raised, the second and the third tie at one
\* half, the fourth scores lower: the text of the second is kept.
OcrVotingWitness ==
  /\ Done("page_ocr_text")
  /\ probe.arg.configs[1].raises
  /\ probe.arg.configs[2].text = <<"A", "1">>
  /\ probe.arg.configs[3].text = <<"1", " ", "K">>
  /\ probe.arg.configs[4].text = <<"1">>
  /\ probe.out.val.text = <<"A", "1">>

\* C31: when no source replacement is under way, at most one job of each
\* speech is pending or processing.
OneInFlightJobPerSpeech ==
  (\A c \in Clients : api[c].pc = "idle") =>
    \A s \in Speeches :
      Cardinality({j \in JobIds :
                     jobs[j].speech_id = s
                     /\ jobs[j].status \in {"pending", "processing"}}) <= 1

\* C32: the process_job of a job that update_speech_video has superseded
\* (cancelled, with the question rows of its speech deleted and speech_name
\* reset) writes neither question rows nor a speech_name to that speech.
NoStaleWriteAfterSupersession ==
  [][\A w \in Workers :
       (/\ pc[w] = "processing" /\ pc'[w] = "returned"
        /\ jobs[job[w]].status = "cancelled")
       => /\ qrows'[jobs[job[w]].speech_id] = qrows[jobs[job[w]].speech_id]
          /\ speeches'[jobs[job[w]].speech_id].speech_name
               = speeches[jobs[job[w]].speech_id].speech_name]_vars

\* C33: a completed job has its transcript and its metadata and no error
\* message, and the questions of the call that completed it; a pending or
\* processing job has no transcript, no metadata and no error message.
ResultFieldsMatchStatus ==
  /\ \A j \in JobIds :
       /\ jobs[j].status = "completed" =>
            /\ jobs[j].transcript # None
            /\ jobs[j].transcript_metadata # None
            /\ jobs[j].error_message = None
       /\ jobs[j].status \in {"pending", "processing"} =>
            /\ jobs[j].transcript = None
            /\ jobs[j].transcript_metadata = None
            /\ jobs[j].error_message = None
  /\ \A w \in Workers :
       (Returned(w) /\ jobs[job[w]].status = "completed") =>
         jobs[job[w]].questions = run[w].questions

\* A job is completed with its questions while a later job of the same
\* worker is processing
ResultFieldsMatchStatusWitness ==
  \E j, k \in JobIds :
    /\ jobs[j].status = "completed"
    /\ jobs[j].questions # None
    /\ jobs[k].status = "processing"

\* C34: a job is processing only while the worker is in the process_job
\* called for it, and that call returns with the job completed or failed
\* (or cancelled from outside); the worker leaves its loop, at a
\* fetch_next_job that found no pending job unlocked; and when it has left it has called
\* process_job for every job it claimed: it holds none, and every job that
\* was claimed is completed or failed.
WorkerProgress ==
  /\ [](\A j \in JobIds :
          jobs[j].status = "processing" => (pc["w1"] = "processing" /\ job["w1"] = j))
  /\ (pc["w1"] = "processing")
       ~> (/\ pc["w1"] = "returned"
           /\ jobs[job["w1"]].status \in {"completed", "failed", "cancelled"})
  /\ <>(pc["w1"] = "exited")
  /\ [](pc["w1"] = "exited" =>
          /\ job["w1"] = 0
          /\ \A j \in JobIds :
               claims[j] > 0 => jobs[j].status \in {"completed", "failed"})
  /\ [][(pc["w1"] # "exited" /\ pc'["w1"] = "exited") =>
          (/\ pc["w1"] = "idle"
           /\ \A j \in JobIds : jobs[j].status = "pending" => rowLock[j] # "free")]_vars

\* The worker has left its loop after the two jobs were processed, one of
\* them failed
WorkerProgressWitness ==
  /\ pc["w1"] = "exited"
  /\ Len(jobs) = 2
  /\ \E j, k \in JobIds : jobs[j].status = "failed" /\ jobs[k].status = "completed"

\* C35: when store_questions raised after its DELETE and before its commit,
\* and the job has been marked failed, the question rows the speech had
\* before the call are still there.
FailedReplacementKeepsQuestions ==
  [][\A w \in Workers :
       (/\ pc[w] = "processing" /\ pc'[w] = "returned"
        /\ run'[w].faults \cap {"long_question", "nul_character"} # {}
        /\ jobs'[job[w]].status = "failed"
        /\ qrows[jobs[job[w]].speech_id] # <<>>)
       => qrows'[jobs[job[w]].speech_id] = qrows[jobs[job[w]].speech_id]]_vars

\* C36: the audio file that a call of process_job got from
\* extract_audio_from_video without the transcoder running was written by a
\* transcoder run that exited with status zero, for the same video: never a
\* file left by a run that exited non-zero, nor the output of another video.
ReusedAudioWasEncoded ==
  [][\A w \in Workers :
       (/\ pc[w] = "processing" /\ pc'[w] = "returned"
        /\ run'[w].audio_path # None
        /\ Resolve(run'[w].audio_path.val) \notin run'[w].made)
       => \E e \in encoded :
            /\ e.file = Resolve(run'[w].audio_path.val)
            /\ e.video = Resolve(run'[w].video_path.val)
            /\ e.exit = 0]_vars

\* The transcript column of the row that mark_completed wrote
Stored == probe.out.val.row.transcript.val

\* stored has the document text d after the transcription t, or alone
Carries(stored, t, d) ==
  \/ stored = d /\ d # t
  \/ stored = t \o <<"\n", "\n">> \o d

\* C37, as stated: the transcript of the completed job is the combined
\* text when that is non-empty and the transcription otherwise; it is the
\* text that was passed to maybe_generate_questions; and it has the document
\* text in it exactly when the document text is non-blank.
StoredTranscriptIsSourceText ==
  Done("fuse_and_persist") =>
    LET t == probe.arg.transcript_text
        d == probe.arg.document_text
        source_text == probe.out.val.source_text
    IN /\ probe.out.val.row.status = "completed"
       /\ Stored = IF source_text # <<>> THEN source_text ELSE t
       /\ Stored = source_text
       /\ ~IsBlank(d) <=> Carries(Stored, t, d)

\* C37, amended: the transcript of the completed job is the text that was
\* passed to maybe_generate_questions when the transcription or the document
\* text is non-blank; when both are blank that text is empty and the
\* transcript is the transcription as it is, whitespace included; and it has
\* the document text in it exactly when the document text is non-blank.
StoredTranscriptIsFusedOrRaw ==
  Done("fuse_and_persist") =>
    LET t == probe.arg.transcript_text
        d == probe.arg.document_text
        source_text == probe.out.val.source_text
    IN /\ probe.out.val.row.status = "completed"
       /\ Stored = IF source_text # <<>> THEN source_text ELSE t
       /\ (~IsBlank(t) \/ ~IsBlank(d)) => Stored = source_text
       /\ (IsBlank(t) /\ IsBlank(d)) => (source_text = <<>> /\ Stored = t)
       /\ ~IsBlank(d) <=> Carries(Stored, t, d)

\* A job completed with the transcription and the document text, both
\* non-blank, joined in its transcript
StoredTranscriptWitness ==
  /\ Done("fuse_and_persist")
  /\ ~IsBlank(probe.arg.transcript_text)
  /\ ~IsBlank(probe.arg.document_text)
  /\ Stored = probe.arg.transcript_text \o <<"\n", "\n">> \o probe.arg.document_text
  /\ Stored = probe.out.val.source_text

====
